---- MODULE Spec2Model ----
(***************************************************************************)
(* The looper agent runtime: the conversation context (pkg/agent context), *)
(* the agent loop Run / RunStream (pkg/agent agent) and the tool dispatch  *)
(* it drives.  The provider is the environment: every completion request   *)
(* is answered by a response, a stream of events or an error drawn from    *)
(* small sets.                                                             *)
(***************************************************************************)
EXTENDS Integers, Sequences, FiniteSets, TLC

VARIABLES
    config,     \* agent.Config: MaxIterations, and whether the provider is a StreamProvider
    ctx,        \* agent.Context: Messages, LoadedSkills, WorkspacePath, token totals, IterationCount
    pc,         \* position of the control thread: idle, top, call, tools, done
    mode,       \* which entry point is active: run, stream (RunStream), fallback (RunStream -> Run)
    cancelled,  \* ctx.Done() of the context.Context handed to the active call is closed
    toolCalls,  \* the tool calls of the response being handled (resp.ToolCalls / toolCalls)
    tcIdx,      \* range index of the tool-call loop (1-based)
    ret,        \* string returned by the last Run / RunStream
    err,        \* error returned by the last Run / RunStream (Nil when none)
    turn,       \* observation of the current turn (what the provider was asked and answered)
    added,      \* number of messages added to the history since agent.New
    handler,    \* the *StreamHandler the caller passes to RunStream
    hooks,      \* the calls made to the handler's hooks during the current call, in order
    net,        \* one streamed completion: adapter, body lines still unread, ctx.Done(), body closed
    prod,       \* the adapter's goroutine: position, its maps, the ToolCall objects it allocated
    chan,       \* eventChan: the buffered events and whether the channel is closed
    cons,       \* RunStream's loop over eventChan: position, content/toolCalls/usage, outcome
    sent,       \* the events the goroutine has sent, as they were when sent
    got,        \* the events RunStream has received, as they were when sent
    sb,         \* sandbox.Config of the agent's ProcessSandbox, and the host it runs on
    execs,      \* the calls of Execute / ExecuteScript: arguments, position, process, result
    tmpfs,      \* the script files in the temporary directory, each with the call that made it
    fileTools,  \* the file tools of the agent: their workspace root, the working directory
    fs,         \* the file system: its directories, and its files with their text
    fileCall,   \* the last call of a file tool: tool, path argument, result, locations used
    disc,       \* skills.Discovery: its RWMutex, and the fields the mutex guards
    dcalls      \* the calls under way on the Discovery, one per goroutine

\* the agent and its loop
avars == <<config, ctx, pc, mode, cancelled, toolCalls, tcIdx, ret, err, turn, added,
           handler, hooks>>

\* one streamed completion seen from both ends of the channel
svars == <<net, prod, chan, cons, sent, got>>

\* the sandbox and the calls made to it
bvars == <<sb, execs, tmpfs>>

\* the file tools and the file system they work on
fvars == <<fileTools, fs, fileCall>>

\* the skill discovery and the goroutines that call it
dvars == <<disc, dcalls>>

vars == <<avars, svars, bvars, fvars, dvars>>

---------------------------------------------------------------------------
(* Bounds of the model *)

\* most messages added to the history in one session (resets included)
MaxMsgs == 5
\* MaxIterations is drawn from 0 .. MaxIterationsCfg
MaxIterationsCfg == 2
\* most tool calls one response carries
MaxCalls == 2

---------------------------------------------------------------------------
(* pkg/llm types *)

RoleAssistant == "assistant"
RoleTool == "tool"

Nil == "<nil>"

\* llm.Message; the zero value of an absent field is "" / <<>>
Message(role, content, calls, id) ==
    [Role |-> role, Content |-> content, ToolCalls |-> calls, ToolCallID |-> id]

NewToolResultMessageSwapped(toolCallID, content) == Message(RoleTool, toolCallID, <<>>, content)

NewToolResultMessage(toolCallID, content) == Message(RoleTool, content, <<>>, toolCallID)

NewAssistantToolCallMessageOnlyFirst(calls) == Message(RoleAssistant, "", SubSeq(calls, 1, 1), "")

NewAssistantToolCallMessage(calls) == Message(RoleAssistant, "", calls, "")

ToolCall(id, name, arguments) == [ID |-> id, Name |-> name, Arguments |-> arguments]

Usage(in, out) == [InputTokens |-> in, OutputTokens |-> out]

---------------------------------------------------------------------------
(* agent.Context *)

NewContext(workspacePath) ==
    [Messages |-> <<>>,
     LoadedSkills |-> [n \in {} |-> ""],
     WorkspacePath |-> workspacePath,
     TotalInputTokens |-> 0,
     TotalOutputTokens |-> 0,
     IterationCount |-> 0]

AddMessageReplaceLast(c, msg) ==
    [c EXCEPT !.Messages =
        IF Len(@) = 0 THEN <<msg>> ELSE SubSeq(@, 1, Len(@) - 1) \o <<msg>>]

AddMessage(c, msg) == [c EXCEPT !.Messages = Append(@, msg)]

AddUserMessagePerTurn(c, content) ==
    AddMessage([c EXCEPT !.IterationCount = 0], Message("user", content, <<>>, ""))

AddUserMessage(c, content) ==
    LET NewUserMessage ==
            LET RoleUser == "user"
            IN
            Message(RoleUser, content, <<>>, "")
    IN
    AddMessage(c, NewUserMessage)

AddAssistantMessage(c, content) ==
    LET NewAssistantMessage == Message(RoleAssistant, content, <<>>, "")
    IN
    AddMessage(c, NewAssistantMessage)

AddToolResult(c, toolCallID, content) == AddMessage(c, NewToolResultMessage(toolCallID, content))

\* skills.Skill, as far as the context keeps it
Skill(name) == [Name |-> name, FilePath |-> ".looper/skills/" \o name \o "/SKILL.md"]

UpdateUsageOutputOnly(c, usage) ==
    [c EXCEPT !.TotalOutputTokens = @ + usage.OutputTokens]

UpdateUsage(c, usage) ==
    [c EXCEPT !.TotalInputTokens = @ + usage.InputTokens,
              !.TotalOutputTokens = @ + usage.OutputTokens]

ClearKeepsCount(c) == [c EXCEPT !.Messages = <<>>]

Clear(c) == [c EXCEPT !.Messages = <<>>, !.IterationCount = 0]

---------------------------------------------------------------------------
(* Tool dispatch: tools.Registry, the built-in tools, Agent.executeTool *)

\* the tools agent.New registers
RegisteredTools == {"read_file", "write_file", "grep", "list_dir", "execute", "bash"}

ErrCanceled == "context canceled"

Ok(result) == [result |-> result, err |-> Nil]

Fail(e) == [result |-> "", err |-> e]

\* args["path"].(string): the zero value when the key is absent
StringArg(args, key) == IF key \in DOMAIN args THEN args[key] ELSE ""

\* ReadFileTool.Execute for a path inside the workspace and no line range
ReadFileExecute(args, ctxDone) ==
    \* files of the workspace directory
    LET WorkspaceFiles == {"a.txt"}
    IN
    LET path == StringArg(args, "path") IN
    IF path = "" THEN Fail("path is required")
    ELSE IF path \notin WorkspaceFiles THEN Fail("file not found: " \o path)
    ELSE IF ctxDone THEN Fail(ErrCanceled)
    ELSE Ok("     1|hello")

\* tool.Execute(ctx, args) of the registered tool called name
ToolExecute(name, args, ctxDone) ==
    \* ListDirTool.Execute, not recursive: the workspace root holds a.txt
    LET ListDirExecute ==
            LET path == StringArg(args, "path") IN
            IF path # "" THEN Fail("directory not found: " \o path)
            ELSE IF ctxDone THEN Fail(ErrCanceled)
            ELSE Ok("a.txt")
    IN
    CASE name = "read_file" -> ReadFileExecute(args, ctxDone)
      [] name = "list_dir" -> ListDirExecute
      [] OTHER -> Fail("execution failed")

\* Registry.Get(name): ok iff a tool of that name was registered
RegistryGet(name) == name \in RegisteredTools

executeTool(tc, ctxDone) ==
    LET EmptyArgs == [k \in {} |-> ""]
    IN
    \* json.Unmarshal(tc.Arguments, &args) with args a map[string]interface{}:
    \* the literal null leaves the map nil and is no error
    LET JsonUnmarshal(raw) ==
            CASE raw = "" -> [args |-> EmptyArgs, err |-> "unexpected end of JSON input"]
              [] raw = "null" -> [args |-> EmptyArgs, err |-> Nil]
              [] raw = "{}" -> [args |-> EmptyArgs, err |-> Nil]
              [] raw = "{\"path\":\"a.txt\"}" -> [args |-> [k \in {"path"} |-> "a.txt"], err |-> Nil]
              [] raw = "[1]" ->
                    [args |-> EmptyArgs,
                     err |-> "json: cannot unmarshal array into Go value of type map[string]interface {}"]
              [] OTHER -> [args |-> EmptyArgs, err |-> "invalid character"]
    IN
    IF ~RegistryGet(tc.Name) THEN Fail("unknown tool: " \o tc.Name)
    ELSE LET parsed == JsonUnmarshal(tc.Arguments) IN
         IF parsed.err # Nil THEN Fail("invalid arguments: " \o parsed.err)
         ELSE ToolExecute(tc.Name, parsed.args, ctxDone)

\* result = fmt.Sprintf("Error: %s", err.Error()) when executeTool failed
ToolResultText(r) == IF r.err # Nil THEN "Error: " \o r.err ELSE r.result

---------------------------------------------------------------------------
(* The provider: what a completion request may be answered with *)

UserInputs == {"hi"}

ProviderErrors == {"failed to send request"}

\* llm.Response
Responses ==
    \* the ids a provider assigns are distinct within one response
    LET CallSeqs ==
            \* the tool calls a response may announce
            LET ScriptedCalls ==
                    { ToolCall("call_1", "read_file", "{\"path\":\"a.txt\"}"),
                      ToolCall("call_2", "nope", "{}"),
                      ToolCall("call_3", "read_file", ""),
                      ToolCall("call_4", "list_dir", "null") }
            IN
            { cs \in UNION { [1..k -> ScriptedCalls] : k \in 0..MaxCalls } :
                \A i, j \in 1..Len(cs) : i # j => cs[i].ID # cs[j].ID }
    IN
    \* the usage the provider reports for an answer with k tool calls
    LET ReportedUsage(k) == Usage(3 + k, 5 - k)
    IN
    LET Contents == {"", "done"}
    IN
    { [Content |-> c, ToolCalls |-> cs, Usage |-> ReportedUsage(Len(cs))] :
        c \in Contents, cs \in CallSeqs }

---------------------------------------------------------------------------
(* llm.StreamEvent, and the event sequences the stream adapters send for a  *)
(* response: Text fragments, ToolCallStart (and ToolCallDelta) per call by  *)
(* index, ToolCallEnd per call, then Done; or an Error ending it early.     *)

TextEvent(text) == [Type |-> "Text", Text |-> text]

ToolCallStartEvent(tc, index) ==
    [Type |-> "ToolCallStart", ToolCall |-> ToolCall(tc.ID, tc.Name, ""), ToolCallIndex |-> index]

ToolCallDeltaEvent(index, delta) ==
    [Type |-> "ToolCallDelta", ToolCallIndex |-> index, ArgumentDelta |-> delta]

ToolCallEndEvent(tc, index) ==
    [Type |-> "ToolCallEnd", ToolCall |-> tc, ToolCallIndex |-> index]

DoneEvent(usage) == [Type |-> "Done", Usage |-> usage]

ErrorEvent(e) == [Type |-> "Error", Error |-> e]

RECURSIVE StartEvents(_, _, _)
\* ToolCallStart, and ToolCallDelta when there are arguments, for the wire
\* indices j .. Len(calls); index[i] is the wire index of calls[i]
StartEvents(calls, index, j) ==
    IF j > Len(calls) THEN <<>>
    ELSE LET i == CHOOSE i \in 1..Len(calls) : index[i] = j
             tc == calls[i]
         IN  <<ToolCallStartEvent(tc, j - 1)>>
             \o (IF tc.Arguments # "" THEN <<ToolCallDeltaEvent(j - 1, tc.Arguments)>> ELSE <<>>)
             \o StartEvents(calls, index, j + 1)

\* the adapter's events for resp: its calls are finalised in the order of
\* resp.ToolCalls (the iteration order of the adapter's map)
StreamOf(resp, frags, index) ==
    [i \in 1..Len(frags) |-> TextEvent(frags[i])]
    \o StartEvents(resp.ToolCalls, index, 1)
    \o [i \in 1..Len(resp.ToolCalls) |-> ToolCallEndEvent(resp.ToolCalls[i], index[i] - 1)]
    \o <<DoneEvent(resp.Usage)>>

---------------------------------------------------------------------------
(* Agent.RunStream: the loop over the event channel *)

StreamState0 ==
    [content |-> "", toolCalls |-> <<>>, currentToolCalls |-> [i \in {} |-> ""],
     usage |-> Usage(0, 0), error |-> Nil]

OnEventTextNeedsHook(st, event) ==
    CASE event.Type = "Text" ->
            IF ~handler.nil /\ handler.OnText
            THEN [st EXCEPT !.content = @ \o event.Text]
            ELSE st
      [] event.Type = "ToolCallStart" ->
            [st EXCEPT !.currentToolCalls =
                [i \in DOMAIN @ \cup {event.ToolCallIndex} |->
                    IF i = event.ToolCallIndex
                    THEN ToolCall(event.ToolCall.ID, event.ToolCall.Name, "")
                    ELSE @[i]]]
      [] event.Type = "ToolCallEnd" ->
            IF event.ToolCallIndex \in DOMAIN st.currentToolCalls
            THEN LET tc == [st.currentToolCalls[event.ToolCallIndex]
                                EXCEPT !.Arguments = event.ToolCall.Arguments]
                 IN  [st EXCEPT !.currentToolCalls[event.ToolCallIndex] = tc,
                                !.toolCalls = Append(@, tc)]
            ELSE st
      [] event.Type = "Done" -> [st EXCEPT !.usage = event.Usage]
      [] OTHER -> st

OnEventTextOverwrites(st, event) ==
    CASE event.Type = "Text" -> [st EXCEPT !.content = event.Text]
      [] event.Type = "ToolCallStart" ->
            [st EXCEPT !.currentToolCalls =
                [i \in DOMAIN @ \cup {event.ToolCallIndex} |->
                    IF i = event.ToolCallIndex
                    THEN ToolCall(event.ToolCall.ID, event.ToolCall.Name, "")
                    ELSE @[i]]]
      [] event.Type = "ToolCallEnd" ->
            IF event.ToolCallIndex \in DOMAIN st.currentToolCalls
            THEN LET tc == [st.currentToolCalls[event.ToolCallIndex]
                                EXCEPT !.Arguments = event.ToolCall.Arguments]
                 IN  [st EXCEPT !.currentToolCalls[event.ToolCallIndex] = tc,
                                !.toolCalls = Append(@, tc)]
            ELSE st
      [] event.Type = "Done" -> [st EXCEPT !.usage = event.Usage]
      [] OTHER -> st

\* one pass of the switch on event.Type (Error is handled by the caller)
OnEvent(st, event) ==
    CASE event.Type = "Text" -> [st EXCEPT !.content = @ \o event.Text]
      [] event.Type = "ToolCallStart" ->
            [st EXCEPT !.currentToolCalls =
                [i \in DOMAIN @ \cup {event.ToolCallIndex} |->
                    IF i = event.ToolCallIndex
                    THEN ToolCall(event.ToolCall.ID, event.ToolCall.Name, "")
                    ELSE @[i]]]
      [] event.Type = "ToolCallEnd" ->
            IF event.ToolCallIndex \in DOMAIN st.currentToolCalls
            THEN LET tc == [st.currentToolCalls[event.ToolCallIndex]
                                EXCEPT !.Arguments = event.ToolCall.Arguments]
                 IN  [st EXCEPT !.currentToolCalls[event.ToolCallIndex] = tc,
                                !.toolCalls = Append(@, tc)]
            ELSE st
      [] event.Type = "Done" -> [st EXCEPT !.usage = event.Usage]
      [] OTHER -> st

RECURSIVE ConsumeEvents(_, _)
\* for event := range eventChan: an Error event returns at once
ConsumeEvents(events, st) ==
    IF events = <<>> THEN st
    ELSE IF Head(events).Type = "Error" THEN [st EXCEPT !.error = Head(events).Error]
    ELSE ConsumeEvents(Tail(events), OnEvent(st, Head(events)))

---------------------------------------------------------------------------
(* StreamHandler: the observation hooks of RunStream *)

\* a *StreamHandler: nil, or a struct of which each field is nil or a function
StreamHandler(isNil, onText, onToolStart, onToolEnd, onUsage, onDone) ==
    [nil |-> isNil, OnText |-> onText, OnToolStart |-> onToolStart,
     OnToolEnd |-> onToolEnd, OnUsage |-> onUsage, OnDone |-> onDone]

NilHandler == StreamHandler(TRUE, FALSE, FALSE, FALSE, FALSE, FALSE)

EmptyHandler == StreamHandler(FALSE, FALSE, FALSE, FALSE, FALSE, FALSE)

FullHandler == StreamHandler(FALSE, TRUE, TRUE, TRUE, TRUE, TRUE)

OnTextCall(h, text) ==
    \* handler != nil && handler.OnText != nil, and so on
    LET HasOnText == ~h.nil /\ h.OnText
    IN
    IF HasOnText THEN <<[hook |-> "OnText", text |-> text]>> ELSE <<>>

OnDoneCall(h) ==
    LET HasOnDone == ~h.nil /\ h.OnDone
    IN
    IF HasOnDone THEN <<[hook |-> "OnDone"]>> ELSE <<>>

ToolHooksRawResult(h, tc, r) ==
    (IF ~h.nil /\ h.OnToolStart THEN <<[hook |-> "OnToolStart", call |-> tc]>> ELSE <<>>)
    \o (IF ~h.nil /\ h.OnToolEnd
        THEN <<[hook |-> "OnToolEnd", call |-> tc, result |-> r.result, err |-> r.err]>>
        ELSE <<>>)

\* OnToolStart(tc), then after executeTool OnToolEnd(tc, result, toolErr)
ToolHooks(h, tc, r) ==
    LET HasOnToolEnd == ~h.nil /\ h.OnToolEnd
        HasOnToolStart == ~h.nil /\ h.OnToolStart
    IN
    (IF HasOnToolStart THEN <<[hook |-> "OnToolStart", call |-> tc]>> ELSE <<>>)
    \o (IF HasOnToolEnd
        THEN <<[hook |-> "OnToolEnd", call |-> tc, result |-> ToolResultText(r), err |-> r.err]>>
        ELSE <<>>)

RECURSIVE StreamHooks(_, _)
\* the hook calls of the event loop: OnText per Text event, up to an Error
StreamHooks(h, events) ==
    IF events = <<>> \/ Head(events).Type = "Error" THEN <<>>
    ELSE (IF Head(events).Type = "Text" THEN OnTextCall(h, Head(events).Text) ELSE <<>>)
         \o StreamHooks(h, Tail(events))

FallbackHooksAlsoOnError(h, result, e) == OnTextCall(h, result) \o OnDoneCall(h)

\* RunStream without a StreamProvider, after Run has returned (result, e)
FallbackHooks(h, result, e) ==
    IF e # Nil THEN <<>> ELSE OnTextCall(h, result) \o OnDoneCall(h)

---------------------------------------------------------------------------
(* Agent.Run and Agent.RunStream *)

ErrMaxIterations(cfg) == "max iterations (" \o ToString(cfg.MaxIterations) \o ") reached"

LLMError(e) == "LLM error: " \o e

LimitReachedOffByOne(cfg, c) ==
    cfg.MaxIterations > 0 /\ c.IterationCount > cfg.MaxIterations

LimitReachedAtZero(cfg, c) == c.IterationCount >= cfg.MaxIterations

\* a.config.MaxIterations > 0 && a.ctx.IterationCount >= a.config.MaxIterations
LimitReached(cfg, c) ==
    cfg.MaxIterations > 0 /\ c.IterationCount >= cfg.MaxIterations

IterationHeadNoCancelCheck(cfg, c, ctxDone) ==
    IF LimitReached(cfg, c)
    THEN [exit |-> TRUE, err |-> ErrMaxIterations(cfg), ctx |-> c]
    ELSE [exit |-> FALSE, err |-> Nil, ctx |-> [c EXCEPT !.IterationCount = @ + 1]]

\* the head of one loop iteration: the limit check, IterationCount++, then
\* the cancellation check
IterationHead(cfg, c, ctxDone) ==
    IF LimitReached(cfg, c)
    THEN [exit |-> TRUE, err |-> ErrMaxIterations(cfg), ctx |-> c]
    ELSE LET c1 == [c EXCEPT !.IterationCount = @ + 1] IN
         IF ctxDone
         THEN [exit |-> TRUE, err |-> ErrCanceled, ctx |-> c1]
         ELSE [exit |-> FALSE, err |-> Nil, ctx |-> c1]

\* what is observed of a turn: the context it started from, the requests
\* issued, the answers received in full and the tool calls executed
Turn0(c) ==
    LET NoResponse == [Content |-> "", ToolCalls |-> <<>>, Usage |-> Usage(0, 0)]
    IN
    [iterAtStart |-> c.IterationCount,
     inAtStart |-> c.TotalInputTokens,
     outAtStart |-> c.TotalOutputTokens,
     msgsAtStart |-> c.Messages,
     reqs |-> 0,
     resps |-> 0,
     withCalls |-> 0,
     calls |-> 0,
     usageIn |-> 0,
     usageOut |-> 0,
     last |-> NoResponse,
     execs |-> <<>>]

Answered(resp) ==
    [turn EXCEPT !.resps = @ + 1,
                 !.withCalls = @ + (IF Len(resp.ToolCalls) > 0 THEN 1 ELSE 0),
                 !.calls = @ + Len(resp.ToolCalls),
                 !.usageIn = @ + resp.Usage.InputTokens,
                 !.usageOut = @ + resp.Usage.OutputTokens,
                 !.last = resp]

Idle == pc \in {"idle", "done"}

Room(n) == added + n <= MaxMsgs

\* the messages an answer adds to the history
Growth(resp) ==
    IF Len(resp.ToolCalls) > 0 THEN 1 + Len(resp.ToolCalls)
    ELSE IF resp.Content # "" THEN 1 ELSE 0

Return(content, e) ==
    /\ pc' = "done"
    /\ ret' = content
    /\ err' = e
    /\ toolCalls' = <<>>
    /\ tcIdx' = 0
    /\ cancelled' = FALSE

Begin(userMessage, ctxDone, m) ==
    /\ Idle
    /\ Room(1)
    /\ ctx' = AddUserMessage(ctx, userMessage)
    /\ turn' = Turn0(ctx)
    /\ mode' = m
    /\ cancelled' = ctxDone
    /\ pc' = "top"
    /\ ret' = ""
    /\ err' = Nil
    /\ toolCalls' = <<>>
    /\ tcIdx' = 0
    /\ added' = added + 1
    /\ hooks' = <<>>
    /\ UNCHANGED <<config, handler>>
    /\ UNCHANGED svars
    /\ UNCHANGED bvars
    /\ UNCHANGED <<fvars, dvars>>

\* Run is called: the user message is added and the loop entered
StartRun ==
    \E userMessage \in UserInputs, ctxDone \in BOOLEAN :
        Begin(userMessage, ctxDone, "run")

\* RunStream is called: without a StreamProvider it calls Run
StartRunStream ==
    \E userMessage \in UserInputs, ctxDone \in BOOLEAN :
        Begin(userMessage, ctxDone, IF config.Streaming THEN "stream" ELSE "fallback")

\* the top of an iteration, up to the point where the request is built
LoopTop ==
    /\ pc = "top"
    /\ LET h == IterationHead(config, ctx, cancelled) IN
        /\ ctx' = h.ctx
        /\ IF h.exit
           THEN Return("", h.err) /\ UNCHANGED turn
           ELSE /\ pc' = "call"
                /\ turn' = [turn EXCEPT !.reqs = @ + 1]
                /\ UNCHANGED <<ret, err, toolCalls, tcIdx, cancelled>>
    /\ added' = added + Len(ctx'.Messages) - Len(ctx.Messages)
    /\ hooks' = IF mode = "fallback" /\ pc' = "done"
                THEN hooks \o FallbackHooks(handler, ret', err')
                ELSE hooks
    /\ UNCHANGED <<config, mode, handler>>
    /\ UNCHANGED svars
    /\ UNCHANGED bvars
    /\ UNCHANGED <<fvars, dvars>>

HandleResponseKeepText(content, calls, usage) ==
    LET c1 == UpdateUsage(ctx, usage) IN
    IF Len(calls) > 0
    THEN /\ ctx' = AddMessage(c1, [NewAssistantToolCallMessage(calls) EXCEPT !.Content = content])
         /\ toolCalls' = calls
         /\ tcIdx' = 1
         /\ pc' = "tools"
         /\ UNCHANGED <<ret, err, cancelled>>
    ELSE /\ ctx' = AddAssistantMessage(c1, content)
         /\ Return(content, Nil)

HandleResponseTextFirst(content, calls, usage) ==
    LET c1 == UpdateUsage(ctx, usage) IN
    IF content = "" /\ Len(calls) > 0
    THEN /\ ctx' = AddMessage(c1, NewAssistantToolCallMessage(calls))
         /\ toolCalls' = calls
         /\ tcIdx' = 1
         /\ pc' = "tools"
         /\ UNCHANGED <<ret, err, cancelled>>
    ELSE /\ ctx' = IF content # "" THEN AddAssistantMessage(c1, content) ELSE c1
         /\ Return(content, Nil)

HandleResponseKeepsText(content, calls, usage) ==
    LET c1 == UpdateUsage(ctx, usage) IN
    IF Len(calls) > 0
    THEN /\ ctx' = AddMessage(c1, Message(RoleAssistant, content, calls, ""))
         /\ toolCalls' = calls
         /\ tcIdx' = 1
         /\ pc' = "tools"
         /\ UNCHANGED <<ret, err, cancelled>>
    ELSE /\ ctx' = IF content # "" THEN AddAssistantMessage(c1, content) ELSE c1
         /\ Return(content, Nil)

\* what both loops do with a complete answer: usage, then either the
\* assistant message with the tool calls or the final text
HandleResponse(content, calls, usage) ==
    LET c1 == UpdateUsage(ctx, usage) IN
    IF Len(calls) > 0
    THEN /\ ctx' = AddMessage(c1, NewAssistantToolCallMessage(calls))
         /\ toolCalls' = calls
         /\ tcIdx' = 1
         /\ pc' = "tools"
         /\ UNCHANGED <<ret, err, cancelled>>
    ELSE /\ ctx' = IF content # "" THEN AddAssistantMessage(c1, content) ELSE c1
         /\ Return(content, Nil)

\* what Run does with a complete response resp in the context c: the
\* context, the position, the tool calls to execute and the result it has
\* after lines 159-185
RunOnResponse(c, resp) ==
    LET c1 == UpdateUsage(c, resp.Usage) IN
    IF Len(resp.ToolCalls) > 0
    THEN [ctx |-> AddMessage(c1, NewAssistantToolCallMessage(resp.ToolCalls)),
          pc |-> "tools", toolCalls |-> resp.ToolCalls, ret |-> ""]
    ELSE [ctx |-> IF resp.Content # "" THEN AddAssistantMessage(c1, resp.Content) ELSE c1,
          pc |-> "done", toolCalls |-> <<>>, ret |-> resp.Content]

CompleteRetries ==
    /\ pc = "call"
    /\ mode \in {"run", "fallback"}
    /\ \/ \E e \in ProviderErrors :
            /\ pc' = "top"
            /\ UNCHANGED <<ctx, turn, ret, err, toolCalls, tcIdx, cancelled>>
       \/ \E resp \in Responses :
            /\ Room(Growth(resp))
            /\ HandleResponse(resp.Content, resp.ToolCalls, resp.Usage)
            /\ turn' = Answered(resp)
    /\ added' = added + Len(ctx'.Messages) - Len(ctx.Messages)
    /\ hooks' = IF mode = "fallback" /\ pc' = "done"
                THEN hooks \o FallbackHooks(handler, ret', err')
                ELSE hooks
    /\ UNCHANGED <<config, mode, handler>>
    /\ UNCHANGED svars
    /\ UNCHANGED bvars
    /\ UNCHANGED <<fvars, dvars>>

\* Run: a.provider.Complete answers
Complete ==
    /\ pc = "call"
    /\ mode \in {"run", "fallback"}
    /\ \/ \E e \in ProviderErrors :
            /\ Return("", LLMError(e))
            /\ UNCHANGED <<ctx, turn>>
       \/ \E resp \in Responses :
            /\ Room(Growth(resp))
            /\ HandleResponse(resp.Content, resp.ToolCalls, resp.Usage)
            /\ turn' = Answered(resp)
    /\ added' = added + Len(ctx'.Messages) - Len(ctx.Messages)
    /\ hooks' = IF mode = "fallback" /\ pc' = "done"
                THEN hooks \o FallbackHooks(handler, ret', err')
                ELSE hooks
    /\ UNCHANGED <<config, mode, handler>>
    /\ UNCHANGED svars
    /\ UNCHANGED bvars
    /\ UNCHANGED <<fvars, dvars>>

\* RunStream: CompleteStream answers and the event channel is drained
CompleteStream ==
    \* the stream cut after n events by a transport error or a cancellation
    LET BrokenStream(events, n, e) == SubSeq(events, 1, n) \o <<ErrorEvent(e)>>
    IN
    LET OnUsageCall(h, usage) ==
            LET HasOnUsage == ~h.nil /\ h.OnUsage
            IN
            IF HasOnUsage
            THEN <<[hook |-> "OnUsage", in |-> usage.InputTokens, out |-> usage.OutputTokens]>>
            ELSE <<>>
    IN
    \* where a stream may break: before its first event, and after its last
    \* event but Done
    LET BreakPoints(events) == {0, Len(events) - 1}
    IN
    \* the causes an Error event carries: ctx.Err() or the read error
    LET StreamErrors == {ErrCanceled, "unexpected EOF"}
    IN
    \* wire indices 1..k for k calls finalised in the order 1..k: the adapter's
    \* map is iterated in any order, of which the first-to-last and the
    \* last-to-first are taken
    LET IndexAssignments(k) == { [i \in 1..k |-> i], [i \in 1..k |-> k + 1 - i] }
    IN
    \* the ways a text reaches the adapter in fragments
    LET Fragmentations(content) ==
            CASE content = "" -> {<<>>}
              [] content = "done" -> {<<"done">>, <<"do", "ne">>}
              [] OTHER -> {<<content>>}
    IN
    /\ pc = "call"
    /\ mode = "stream"
    /\ \/ \E e \in ProviderErrors :
            /\ Return("", LLMError(e))
            /\ UNCHANGED <<ctx, turn, hooks>>
       \/ \E resp \in Responses :
          \E frags \in Fragmentations(resp.Content) :
          \E index \in IndexAssignments(Len(resp.ToolCalls)) :
            LET events == StreamOf(resp, frags, index) IN
            \/ LET st == ConsumeEvents(events, StreamState0) IN
                /\ Room(Growth(resp))
                /\ HandleResponse(st.content, st.toolCalls, st.usage)
                /\ turn' = Answered(resp)
                /\ hooks' = hooks \o StreamHooks(handler, events)
                                  \o OnUsageCall(handler, st.usage)
                                  \o (IF pc' = "done" THEN OnDoneCall(handler) ELSE <<>>)
            \/ \E n \in BreakPoints(events), e \in StreamErrors :
                LET st == ConsumeEvents(BrokenStream(events, n, e), StreamState0) IN
                /\ index = [i \in 1..Len(resp.ToolCalls) |-> i]
                /\ Len(frags) <= 1
                /\ st.error # Nil
                /\ Return("", st.error)
                /\ hooks' = hooks \o StreamHooks(handler, BrokenStream(events, n, e))
                /\ UNCHANGED <<ctx, turn>>
    /\ added' = added + Len(ctx'.Messages) - Len(ctx.Messages)
    /\ UNCHANGED <<config, mode, handler>>
    /\ UNCHANGED svars
    /\ UNCHANGED bvars
    /\ UNCHANGED <<fvars, dvars>>

ExecToolStopOnError ==
    /\ pc = "tools"
    /\ LET tc == toolCalls[tcIdx]
           r == executeTool(tc, cancelled)
       IN  /\ turn' = [turn EXCEPT !.execs = Append(@, tc)]
           /\ IF r.err # Nil
              THEN /\ Return("", r.err)
                   /\ UNCHANGED ctx
              ELSE /\ ctx' = AddToolResult(ctx, tc.ID, ToolResultText(r))
                   /\ IF tcIdx = Len(toolCalls)
                      THEN pc' = "top" /\ toolCalls' = <<>> /\ tcIdx' = 0
                      ELSE pc' = "tools" /\ toolCalls' = toolCalls /\ tcIdx' = tcIdx + 1
                   /\ UNCHANGED <<ret, err, cancelled>>
    /\ added' = added + Len(ctx'.Messages) - Len(ctx.Messages)
    /\ UNCHANGED <<config, mode, handler, hooks>>
    /\ UNCHANGED svars
    /\ UNCHANGED bvars
    /\ UNCHANGED <<fvars, dvars>>

\* one pass of the loop over the tool calls: executeTool, then AddToolResult
ExecTool ==
    /\ pc = "tools"
    /\ LET tc == toolCalls[tcIdx]
           r == executeTool(tc, cancelled)
       IN  /\ ctx' = AddToolResult(ctx, tc.ID, ToolResultText(r))
           /\ turn' = [turn EXCEPT !.execs = Append(@, tc)]
           /\ hooks' = IF mode = "stream" THEN hooks \o ToolHooks(handler, tc, r) ELSE hooks
    /\ IF tcIdx = Len(toolCalls)
       THEN pc' = "top" /\ toolCalls' = <<>> /\ tcIdx' = 0
       ELSE pc' = "tools" /\ toolCalls' = toolCalls /\ tcIdx' = tcIdx + 1
    /\ added' = added + 1
    /\ UNCHANGED <<config, mode, cancelled, ret, err, handler>>
    /\ UNCHANGED svars
    /\ UNCHANGED bvars
    /\ UNCHANGED <<fvars, dvars>>

\* the caller cancels the context of the call in progress
Cancel ==
    /\ pc \in {"top", "call", "tools"}
    /\ ~cancelled
    /\ cancelled' = TRUE
    /\ UNCHANGED <<config, ctx, pc, mode, toolCalls, tcIdx, ret, err, turn, added,
                   handler, hooks>>
    /\ UNCHANGED svars
    /\ UNCHANGED bvars
    /\ UNCHANGED <<fvars, dvars>>

\* Agent.Reset
Reset ==
    /\ Idle
    /\ ctx' = Clear(ctx)
    /\ pc' = "idle"
    /\ ret' = ""
    /\ err' = Nil
    /\ turn' = Turn0(ctx')
    /\ hooks' = <<>>
    /\ UNCHANGED <<config, mode, cancelled, toolCalls, tcIdx, added, handler>>
    /\ UNCHANGED svars
    /\ UNCHANGED bvars
    /\ UNCHANGED <<fvars, dvars>>

\* the skills of the workspace
SkillNames == {"golang", "code-review"}

\* Agent.LoadSkill(name) for a skill the discovery finds
AgentLoadSkill ==
    LET LoadSkill(c, skill) ==
            [c EXCEPT !.LoadedSkills =
                [n \in DOMAIN @ \cup {skill.Name} |-> IF n = skill.Name THEN skill ELSE @[n]]]
    IN
    /\ Idle
    /\ \E name \in SkillNames :
        /\ ctx' = LoadSkill(ctx, Skill(name))
    /\ pc' = "idle"
    /\ ret' = ""
    /\ err' = Nil
    /\ turn' = Turn0(ctx')
    /\ hooks' = <<>>
    /\ UNCHANGED <<config, mode, cancelled, toolCalls, tcIdx, added, handler>>
    /\ UNCHANGED svars
    /\ UNCHANGED bvars
    /\ UNCHANGED <<fvars, dvars>>

---------------------------------------------------------------------------
(* StreamProvider.CompleteStream: the adapter's goroutine reads the lines  *)
(* of the response body and sends StreamEvents on eventChan, while          *)
(* RunStream ranges over eventChan. The events of a tool call carry a        *)
(* pointer to the ToolCall the goroutine allocated: prod.heap holds these    *)
(* objects and an event's ref is the object's address (0 for no object).     *)

\* cap(eventChan)
ChanCap == 100

\* the most lines a response body has
MaxWire == 3

\* the lines of the body that fills eventChan
FloodLen == 101

\* a "data: {...}" line of the OpenAI stream; usage is <<>> for no usage
OpenAIChunk(content, deltas, usage) ==
    [kind |-> "chunk", choices |-> TRUE, content |-> content, tool_calls |-> deltas,
     usage |-> usage]

\* doneAt records where the goroutine was when ctx was cancelled
Net(adapter, lines) ==
    [adapter |-> adapter, lines |-> lines, done |-> FALSE, doneAt |-> "", bodyClosed |-> FALSE]

\* the goroutine's locals when it starts
Prod0 ==
    [pc |-> "top", next |-> "top", pending |-> <<>>, heap |-> <<>>,
     toolCalls |-> <<>>, toolCallArgs |-> <<>>, toolCallStarted |-> {}, todo |-> {},
     inputTokens |-> 0, outputTokens |-> 0]

Chan0 == [buf |-> <<>>, closed |-> FALSE]

Cons0 == [pc |-> "range", st |-> StreamState0, err |-> Nil, msgs |-> <<>>]

\* m[k] = v
MapPut(m, k, v) == [i \in DOMAIN m \cup {k} |-> IF i = k THEN v ELSE m[i]]

ArgsOfOrObject(m, k) == IF k \in DOMAIN m /\ m[k] # "" THEN m[k] ELSE "{}"

\* toolCallArgs[k]: the empty string for a missing key
ArgsOf(m, k) == IF k \in DOMAIN m THEN m[k] ELSE ""

\* an event in the channel: its fields when sent, and the address in ToolCall
Item(ev, ref) == [ev |-> ev, ref |-> ref]

\* the goroutine's step on one tool call delta: the first delta of an index
\* with an id or a name starts the call, later ones update the object
OpenAIToolCallStart(p, d) ==
    IF d.ID = "" /\ d.Name = "" THEN [p |-> p, events |-> <<>>]
    ELSE IF d.Index \notin p.toolCallStarted
    THEN LET tc == ToolCall(d.ID, d.Name, "")
             a == Len(p.heap) + 1
         IN  [p |-> [p EXCEPT !.heap = Append(@, tc),
                              !.toolCalls = MapPut(@, d.Index, a),
                              !.toolCallArgs = MapPut(@, d.Index, ""),
                              !.toolCallStarted = @ \cup {d.Index}],
              events |-> <<Item(ToolCallStartEvent(tc, d.Index), a)>>]
    ELSE LET a == p.toolCalls[d.Index]
         IN  [p |-> [p EXCEPT !.heap[a].ID = IF d.ID # "" THEN d.ID ELSE @,
                              !.heap[a].Name = IF d.Name # "" THEN d.Name ELSE @],
              events |-> <<>>]

\* the arguments fragment of a delta is accumulated and sent
OpenAIToolCallArgs(p, d) ==
    IF d.Arguments = "" THEN [p |-> p, events |-> <<>>]
    ELSE [p |-> [p EXCEPT !.toolCallArgs =
                              MapPut(@, d.Index, ArgsOf(@, d.Index) \o d.Arguments)],
          events |-> <<Item(ToolCallDeltaEvent(d.Index, d.Arguments), 0)>>]

RECURSIVE OpenAIToolCalls(_, _)
\* for _, tcDelta := range delta.ToolCalls
OpenAIToolCalls(p, deltas) ==
    IF deltas = <<>> THEN [p |-> p, events |-> <<>>]
    ELSE LET s == OpenAIToolCallStart(p, Head(deltas))
             g == OpenAIToolCallArgs(s.p, Head(deltas))
             r == OpenAIToolCalls(g.p, Tail(deltas))
         IN  [p |-> r.p, events |-> s.events \o g.events \o r.events]

\* the body of the OpenAI read loop for one chunk
OpenAILine(p, line) ==
    LET p1 == IF line.usage # <<>>
              THEN [p EXCEPT !.inputTokens = line.usage[1].InputTokens,
                             !.outputTokens = line.usage[1].OutputTokens]
              ELSE p
        text == IF line.content # "" THEN <<Item(TextEvent(line.content), 0)>> ELSE <<>>
        r == OpenAIToolCalls(p1, line.tool_calls)
    IN  IF ~line.choices THEN [p |-> p1, events |-> <<>>, stop |-> FALSE]
        ELSE [p |-> r.p, events |-> text \o r.events, stop |-> FALSE]

AnthropicLineStopContinues(p, line) ==
    CASE line.kind = "content_block_start" ->
            LET tc == ToolCall(line.ID, line.Name, "")
                a == Len(p.heap) + 1
            IN  [p |-> [p EXCEPT !.heap = Append(@, tc),
                                 !.toolCalls = MapPut(@, line.Index, a),
                                 !.toolCallArgs = MapPut(@, line.Index, "")],
                 events |-> <<Item(ToolCallStartEvent(tc, line.Index), a)>>,
                 stop |-> FALSE]
      [] line.kind = "content_block_delta" /\ line.Type = "text_delta" ->
            [p |-> p,
             events |-> IF line.Text # "" THEN <<Item(TextEvent(line.Text), 0)>> ELSE <<>>,
             stop |-> FALSE]
      [] line.kind = "content_block_delta" /\ line.Type = "input_json_delta" ->
            IF line.PartialJSON = "" THEN [p |-> p, events |-> <<>>, stop |-> FALSE]
            ELSE [p |-> [p EXCEPT !.toolCallArgs =
                            MapPut(@, line.Index, ArgsOf(@, line.Index) \o line.PartialJSON)],
                  events |-> <<Item(ToolCallDeltaEvent(line.Index, line.PartialJSON), 0)>>,
                  stop |-> FALSE]
      [] line.kind = "content_block_stop" ->
            IF line.Index \in DOMAIN p.toolCalls
            THEN LET a == p.toolCalls[line.Index]
                     q == [p EXCEPT !.heap[a].Arguments = ArgsOf(p.toolCallArgs, line.Index)]
                 IN  [p |-> q, events |-> <<Item(ToolCallEndEvent(q.heap[a], line.Index), a)>>,
                      stop |-> FALSE]
            ELSE [p |-> p, events |-> <<>>, stop |-> FALSE]
      [] line.kind = "message_delta" ->
            [p |-> [p EXCEPT !.outputTokens = line.OutputTokens], events |-> <<>>,
             stop |-> FALSE]
      [] line.kind = "message_stop" ->
            [p |-> p,
             events |-> <<Item(DoneEvent(Usage(p.inputTokens, p.outputTokens)), 0)>>,
             stop |-> FALSE]
      [] OTHER -> [p |-> p, events |-> <<>>, stop |-> FALSE]

\* the switch on event.Type of the Anthropic read loop; stop: the goroutine
\* returns after sending the events
AnthropicLine(p, line) ==
    CASE line.kind = "content_block_start" ->
            LET tc == ToolCall(line.ID, line.Name, "")
                a == Len(p.heap) + 1
            IN  [p |-> [p EXCEPT !.heap = Append(@, tc),
                                 !.toolCalls = MapPut(@, line.Index, a),
                                 !.toolCallArgs = MapPut(@, line.Index, "")],
                 events |-> <<Item(ToolCallStartEvent(tc, line.Index), a)>>,
                 stop |-> FALSE]
      [] line.kind = "content_block_delta" /\ line.Type = "text_delta" ->
            [p |-> p,
             events |-> IF line.Text # "" THEN <<Item(TextEvent(line.Text), 0)>> ELSE <<>>,
             stop |-> FALSE]
      [] line.kind = "content_block_delta" /\ line.Type = "input_json_delta" ->
            IF line.PartialJSON = "" THEN [p |-> p, events |-> <<>>, stop |-> FALSE]
            ELSE [p |-> [p EXCEPT !.toolCallArgs =
                            MapPut(@, line.Index, ArgsOf(@, line.Index) \o line.PartialJSON)],
                  events |-> <<Item(ToolCallDeltaEvent(line.Index, line.PartialJSON), 0)>>,
                  stop |-> FALSE]
      [] line.kind = "content_block_stop" ->
            IF line.Index \in DOMAIN p.toolCalls
            THEN LET a == p.toolCalls[line.Index]
                     q == [p EXCEPT !.heap[a].Arguments = ArgsOf(p.toolCallArgs, line.Index)]
                 IN  [p |-> q, events |-> <<Item(ToolCallEndEvent(q.heap[a], line.Index), a)>>,
                      stop |-> FALSE]
            ELSE [p |-> p, events |-> <<>>, stop |-> FALSE]
      [] line.kind = "message_delta" ->
            [p |-> [p EXCEPT !.outputTokens = line.OutputTokens], events |-> <<>>,
             stop |-> FALSE]
      [] line.kind = "message_stop" ->
            [p |-> p,
             events |-> <<Item(DoneEvent(Usage(p.inputTokens, p.outputTokens)), 0)>>,
             stop |-> TRUE]
      [] OTHER -> [p |-> p, events |-> <<>>, stop |-> FALSE]

\* the goroutine goes on to send events and then continues at next
Sending(p, events, next) ==
    [p EXCEPT !.pending = events,
              !.next = next,
              !.pc = IF events = <<>> THEN next ELSE "send"]

ProducerTopNoCancelCheck ==
    /\ prod.pc = "top"
    /\ prod' = [prod EXCEPT !.pc = "read"]
    /\ UNCHANGED <<net, chan, cons, sent, got>>
    /\ UNCHANGED avars
    /\ UNCHANGED bvars
    /\ UNCHANGED <<fvars, dvars>>

ProducerTopGoesOn ==
    /\ prod.pc = "top"
    /\ prod' = IF net.done
               THEN Sending(prod, <<Item(ErrorEvent(ErrCanceled), 0)>>, "top")
               ELSE [prod EXCEPT !.pc = "read"]
    /\ UNCHANGED <<net, chan, cons, sent, got>>
    /\ UNCHANGED avars
    /\ UNCHANGED bvars
    /\ UNCHANGED <<fvars, dvars>>

\* the head of the read loop: select on ctx.Done() with a default
ProducerTop ==
    /\ prod.pc = "top"
    /\ prod' = IF net.done
               THEN Sending(prod, <<Item(ErrorEvent(ErrCanceled), 0)>>, "return")
               ELSE [prod EXCEPT !.pc = "read"]
    /\ UNCHANGED <<net, chan, cons, sent, got>>
    /\ UNCHANGED avars
    /\ UNCHANGED bvars
    /\ UNCHANGED <<fvars, dvars>>

\* reader.ReadString('\n') and the handling of the line
ProducerRead ==
    \* the goroutine has left the read loop
    LET AfterLoop(adapter, p) ==
            IF adapter = "openai"
            THEN [p EXCEPT !.pc = "finalize", !.todo = DOMAIN p.toolCalls]
            ELSE Sending(p, <<Item(DoneEvent(Usage(p.inputTokens, p.outputTokens)), 0)>>, "return")
    IN
    \* the errors reader.ReadString may return other than io.EOF: the
    \* connection breaks, or the request's context is cancelled
    LET ReadErrors == IF net.done THEN {"unexpected EOF", ErrCanceled} ELSE {"unexpected EOF"}
    IN
    /\ prod.pc = "read"
    /\ \/ /\ net.lines = <<>>
          /\ prod' = AfterLoop(net.adapter, prod)
          /\ net' = net
       \/ /\ \E e \in ReadErrors :
                prod' = Sending(prod, <<Item(ErrorEvent(e), 0)>>, "return")
          /\ net' = net
       \/ /\ net.lines # <<>>
          /\ Head(net.lines).kind = "[DONE]"
          /\ prod' = AfterLoop(net.adapter, prod)
          /\ net' = [net EXCEPT !.lines = Tail(@)]
       \/ /\ net.lines # <<>>
          /\ Head(net.lines).kind # "[DONE]"
          /\ LET r == IF net.adapter = "openai"
                      THEN OpenAILine(prod, Head(net.lines))
                      ELSE AnthropicLine(prod, Head(net.lines))
             IN  prod' = Sending(r.p, r.events, IF r.stop THEN "return" ELSE "top")
          /\ net' = [net EXCEPT !.lines = Tail(@)]
    /\ UNCHANGED <<chan, cons, sent, got>>
    /\ UNCHANGED avars
    /\ UNCHANGED bvars
    /\ UNCHANGED <<fvars, dvars>>

ProducerSendDropsWhenFull ==
    /\ prod.pc = "send"
    /\ prod.pending # <<>>
    /\ chan' = IF Len(chan.buf) < ChanCap
               THEN [chan EXCEPT !.buf = Append(@, Head(prod.pending))]
               ELSE chan
    /\ sent' = Append(sent, Head(prod.pending).ev)
    /\ prod' = [prod EXCEPT !.pending = Tail(@),
                            !.pc = IF Tail(prod.pending) = <<>> THEN prod.next ELSE "send"]
    /\ UNCHANGED <<net, cons, got>>
    /\ UNCHANGED avars
    /\ UNCHANGED bvars
    /\ UNCHANGED <<fvars, dvars>>

\* eventChan <- event: possible while the buffer has room
ProducerSend ==
    /\ prod.pc = "send"
    /\ prod.pending # <<>>
    /\ Len(chan.buf) < ChanCap
    /\ chan' = [chan EXCEPT !.buf = Append(@, Head(prod.pending))]
    /\ sent' = Append(sent, Head(prod.pending).ev)
    /\ prod' = [prod EXCEPT !.pending = Tail(@),
                            !.pc = IF Tail(prod.pending) = <<>> THEN prod.next ELSE "send"]
    /\ UNCHANGED <<net, cons, got>>
    /\ UNCHANGED avars
    /\ UNCHANGED bvars
    /\ UNCHANGED <<fvars, dvars>>

\* OpenAI, after the loop: one ToolCallEnd per entry of toolCalls, in the
\* order the map is iterated, then Done
ProducerFinalize ==
    /\ prod.pc = "finalize"
    /\ \/ /\ prod.todo = {}
          /\ prod' = Sending(prod,
                         <<Item(DoneEvent(Usage(prod.inputTokens, prod.outputTokens)), 0)>>,
                         "return")
       \/ \E idx \in prod.todo :
            LET a == prod.toolCalls[idx]
                q == [prod EXCEPT !.heap[a].Arguments = ArgsOf(prod.toolCallArgs, idx),
                                  !.todo = @ \ {idx}]
            IN  prod' = Sending(q, <<Item(ToolCallEndEvent(q.heap[a], idx), a)>>, "finalize")
    /\ UNCHANGED <<net, chan, cons, sent, got>>
    /\ UNCHANGED avars
    /\ UNCHANGED bvars
    /\ UNCHANGED <<fvars, dvars>>

\* the goroutine returns: resp.Body.Close(), then close(eventChan)
ProducerReturn ==
    /\ prod.pc = "return"
    /\ prod' = [prod EXCEPT !.pc = "exited"]
    /\ net' = [net EXCEPT !.bodyClosed = TRUE]
    /\ chan' = [chan EXCEPT !.closed = TRUE]
    /\ UNCHANGED <<cons, sent, got>>
    /\ UNCHANGED avars
    /\ UNCHANGED bvars
    /\ UNCHANGED <<fvars, dvars>>

\* RunStream receives one event: an Error makes it return the error
ConsumerRecv ==
    \* the event as read by the receiver: ToolCall is what the pointer refers to
    LET Deref(item, heap) ==
            IF item.ref = 0 THEN item.ev ELSE [item.ev EXCEPT !.ToolCall = heap[item.ref]]
    IN
    /\ cons.pc = "range"
    /\ chan.buf # <<>>
    /\ LET item == Head(chan.buf) IN
        /\ got' = Append(got, item.ev)
        /\ cons' = IF item.ev.Type = "Error"
                   THEN [cons EXCEPT !.pc = "returned", !.err = item.ev.Error]
                   ELSE [cons EXCEPT !.st = OnEvent(@, Deref(item, prod.heap))]
    /\ chan' = [chan EXCEPT !.buf = Tail(@)]
    /\ UNCHANGED <<net, prod, sent>>
    /\ UNCHANGED avars
    /\ UNCHANGED bvars
    /\ UNCHANGED <<fvars, dvars>>

RECURSIVE ToolResults(_, _, _)
\* for _, tc := range toolCalls: executeTool and AddToolResult
ToolResults(c, calls, ctxDone) ==
    IF calls = <<>> THEN c
    ELSE ToolResults(AddToolResult(c, Head(calls).ID,
                                   ToolResultText(executeTool(Head(calls), ctxDone))),
                     Tail(calls), ctxDone)

\* RunStream after the channel is closed and drained: the usage, then the
\* assistant message with the tool calls and their results, or the answer
ConsumerFinish ==
    /\ cons.pc = "range"
    /\ chan.buf = <<>>
    /\ chan.closed
    /\ LET c == UpdateUsage(NewContext("/ws"), cons.st.usage)
           calls == cons.st.toolCalls
           after == IF Len(calls) > 0
                    THEN ToolResults(AddMessage(c, NewAssistantToolCallMessage(calls)),
                                     calls, net.done)
                    ELSE IF cons.st.content # ""
                    THEN AddAssistantMessage(c, cons.st.content)
                    ELSE c
       IN  cons' = [cons EXCEPT !.pc = "finished", !.msgs = after.Messages]
    /\ UNCHANGED <<net, prod, chan, sent, got>>
    /\ UNCHANGED avars
    /\ UNCHANGED bvars
    /\ UNCHANGED <<fvars, dvars>>

\* the caller cancels ctx while the stream is open; a goroutine that is
\* sending is recorded at the place it continues at after the send
CancelStream ==
    /\ net.adapter # "none"
    /\ ~net.done
    /\ ~chan.closed
    /\ net' = [net EXCEPT !.done = TRUE,
                          !.doneAt = IF prod.pc = "send" THEN prod.next ELSE prod.pc]
    /\ UNCHANGED <<prod, chan, cons, sent, got>>
    /\ UNCHANGED avars
    /\ UNCHANGED bvars
    /\ UNCHANGED <<fvars, dvars>>

\* no stream is open
NoStream ==
    /\ net = Net("none", <<>>)
    /\ prod = [Prod0 EXCEPT !.pc = "idle"]
    /\ chan = Chan0
    /\ cons = [Cons0 EXCEPT !.pc = "idle"]
    /\ sent = <<>>
    /\ got = <<>>

---------------------------------------------------------------------------
(* Strings, as the Go functions used by the sandbox compute them *)

\* s[i] as a string of one character
Char(s, i) == SubSeq(s, i, i)

\* s[i:] (0-based i, as in Go)
From(s, i) == SubSeq(s, i + 1, Len(s))

\* strings.HasPrefix
HasPrefix(s, prefix) == Len(s) >= Len(prefix) /\ SubSeq(s, 1, Len(prefix)) = prefix

\* strings.Contains
Contains(s, sub) == \E i \in 0..(Len(s) - Len(sub)) : SubSeq(s, i + 1, i + Len(sub)) = sub

\* strings.Join
RECURSIVE Join(_, _)
Join(elems, sep) ==
    IF elems = <<>> THEN ""
    ELSE IF Len(elems) = 1 THEN elems[1]
    ELSE elems[1] \o sep \o Join(Tail(elems), sep)

\* strings.ToLower
RECURSIVE ToLower(_)
ToLower(s) ==
    LET upper == "ABCDEFGHIJKLMNOPQRSTUVWXYZ"
        lower == "abcdefghijklmnopqrstuvwxyz"
        c == Char(s, 1)
    IN  IF s = "" THEN ""
        ELSE (IF \E i \in 1..Len(upper) : Char(upper, i) = c
              THEN Char(lower, CHOOSE i \in 1..Len(upper) : Char(upper, i) = c)
              ELSE c)
             \o ToLower(From(s, 1))

\* the characters of the class \s of package regexp, which are also the
\* characters of a script that unicode.IsSpace accepts
IsSpace(c) == c \in {" ", "\t", "\n", "\f", "\r"}

\* regexp.MustCompile(`\s+`).ReplaceAllString(s, " ")
RECURSIVE CollapseSpace(_)
CollapseSpace(s) ==
    IF s = "" THEN ""
    ELSE IF IsSpace(Char(s, 1))
    THEN IF Len(s) >= 2 /\ IsSpace(Char(s, 2))
         THEN CollapseSpace(From(s, 1))
         ELSE " " \o CollapseSpace(From(s, 1))
    ELSE Char(s, 1) \o CollapseSpace(From(s, 1))

\* strings.TrimSpace
TrimSpace(s) ==
    LET kept == { i \in 1..Len(s) : ~IsSpace(Char(s, i)) } IN
    IF kept = {} THEN ""
    ELSE SubSeq(s, CHOOSE i \in kept : \A j \in kept : i <= j,
                   CHOOSE i \in kept : \A j \in kept : i >= j)

\* regexp.QuoteMeta
RECURSIVE QuoteMeta(_)
QuoteMeta(s) ==
    LET special == {"\\", ".", "+", "*", "?", "(", ")", "|", "[", "]", "{", "}", "^", "$"} IN
    IF s = "" THEN ""
    ELSE (IF Char(s, 1) \in special THEN "\\" \o Char(s, 1) ELSE Char(s, 1))
         \o QuoteMeta(From(s, 1))

\* strings.ReplaceAll for a non-empty old
RECURSIVE ReplaceAll(_, _, _)
ReplaceAll(s, old, new) ==
    IF s = "" THEN ""
    ELSE IF HasPrefix(s, old) THEN new \o ReplaceAll(From(s, Len(old)), old, new)
    ELSE Char(s, 1) \o ReplaceAll(From(s, 1), old, new)

\* regexp.Compile for the expressions checkBlacklist builds (an escaped
\* character, the two characters .* and plain characters): the tokens of the
\* expression, or no tokens and an error for an expression that ends in a
\* lone backslash
RECURSIVE Compile(_)
Compile(re) ==
    IF re = "" THEN [tokens |-> <<>>, err |-> Nil]
    ELSE IF Char(re, 1) = "\\"
    THEN IF Len(re) = 1 THEN [tokens |-> <<>>, err |-> "trailing backslash at end of expression"]
         ELSE LET r == Compile(From(re, 2)) IN
              [tokens |-> <<[lit |-> Char(re, 2)]>> \o r.tokens, err |-> r.err]
    ELSE IF HasPrefix(re, ".*")
    THEN LET r == Compile(From(re, 2)) IN
         [tokens |-> <<[any |-> TRUE]>> \o r.tokens, err |-> r.err]
    ELSE LET r == Compile(From(re, 1)) IN
         [tokens |-> <<[lit |-> Char(re, 1)]>> \o r.tokens, err |-> r.err]

---------------------------------------------------------------------------
(* The deny-list: sandbox.Config.CommandBlacklist and checkBlacklist *)

ErrBlacklistedCommand == "command blocked by blacklist"

\* ProcessSandbox.checkBlacklist: a nil list and an empty list have length
\* 0; the input is put in lower case and its whitespace collapsed, a pattern
\* is put in lower case; the error names the first pattern that matches
checkBlacklist(blacklist, input) ==
    \* Regexp.MatchString: the expression matches somewhere in s; .* takes any
    \* run of characters other than \n
    LET MatchString(tokens, s) ==
            LET RECURSIVE MatchHere(_, _)
                MatchHere(toks, t) ==
                    IF toks = <<>> THEN TRUE
                    ELSE IF "any" \in DOMAIN Head(toks)
                    THEN \/ MatchHere(Tail(toks), t)
                         \/ t # "" /\ Char(t, 1) # "\n" /\ MatchHere(toks, From(t, 1))
                    ELSE t # "" /\ Char(t, 1) = Head(toks).lit /\ MatchHere(Tail(toks), From(t, 1))
            IN  \E i \in 0..Len(s) : MatchHere(tokens, From(s, i))
    IN
    \* strconv.Quote, the verb %q
    LET Quote(s) ==
            LET RECURSIVE Escaped(_)
                Escaped(t) ==
                    IF t = "" THEN ""
                    ELSE (CASE Char(t, 1) = "\"" -> "\\\""
                            [] Char(t, 1) = "\\" -> "\\\\"
                            [] Char(t, 1) = "\t" -> "\\t"
                            [] Char(t, 1) = "\n" -> "\\n"
                            [] Char(t, 1) = "\f" -> "\\f"
                            [] Char(t, 1) = "\r" -> "\\r"
                            [] OTHER -> Char(t, 1))
                         \o Escaped(From(t, 1))
            IN  "\"" \o Escaped(s) \o "\""
    IN
    LET normalizedInput == CollapseSpace(ToLower(input))
        Blocks(pattern) ==
            LET normalizedPattern == ToLower(pattern)
                regexPattern == ReplaceAll(QuoteMeta(normalizedPattern), "\\*", ".*")
                re == Compile(regexPattern)
            IN  IF re.err # Nil THEN Contains(normalizedInput, normalizedPattern)
                ELSE MatchString(re.tokens, normalizedInput)
        RECURSIVE Loop(_)
        Loop(patterns) ==
            IF patterns = <<>> THEN Nil
            ELSE IF Blocks(Head(patterns))
            THEN ErrBlacklistedCommand \o ": matches pattern " \o Quote(Head(patterns))
            ELSE Loop(Tail(patterns))
    IN  IF Len(blacklist) = 0 THEN Nil ELSE Loop(blacklist)

\* sandbox.DefaultBlacklist(), in part
DefaultBlacklist == <<"rm -rf /", "curl * | sh", "sudo su">>

ResolveBlacklistIgnoresDisable(agentConfig) ==
    IF ~agentConfig.CommandBlacklist.nil THEN agentConfig.CommandBlacklist.items
    ELSE DefaultBlacklist

\* agent.New: the CommandBlacklist of the sandbox's configuration, from the
\* DisableBlacklist and CommandBlacklist of agent.Config. A []string is nil,
\* or has items (which may be none)
ResolveBlacklist(agentConfig) ==
    IF agentConfig.DisableBlacklist THEN <<>>
    ELSE IF ~agentConfig.CommandBlacklist.nil THEN agentConfig.CommandBlacklist.items
    ELSE DefaultBlacklist

---------------------------------------------------------------------------
(* wrapPythonScript, buildEnvironment and limitedWriter *)

\* base64.StdEncoding.EncodeToString([]byte(s)): three bytes give four
\* characters, the last group is padded with =
RECURSIVE EncodeToString(_)
EncodeToString(s) ==
    LET upto95 == " !\"#$%&'()*+,-./0123456789:;<=>?@ABCDEFGHIJKLMNOPQRSTUVWXYZ[\\]^_"
        from97 == "abcdefghijklmnopqrstuvwxyz{|}~"
        Byte(c) ==
            CASE c = "\n" -> 10
              [] c = "\t" -> 9
              [] \E i \in 1..Len(upto95) : Char(upto95, i) = c ->
                    31 + (CHOOSE i \in 1..Len(upto95) : Char(upto95, i) = c)
              [] OTHER -> 96 + (CHOOSE i \in 1..Len(from97) : Char(from97, i) = c)
        Sextet(n) ==
            Char("ABCDEFGHIJKLMNOPQRSTUVWXYZabcdefghijklmnopqrstuvwxyz0123456789+/", n + 1)
        b1 == Byte(Char(s, 1))
        b2 == IF Len(s) >= 2 THEN Byte(Char(s, 2)) ELSE 0
        b3 == IF Len(s) >= 3 THEN Byte(Char(s, 3)) ELSE 0
        n == b1 * 65536 + b2 * 256 + b3
    IN  IF s = "" THEN ""
        ELSE Sextet(n \div 262144)
             \o Sextet((n \div 4096) % 64)
             \o (IF Len(s) >= 2 THEN Sextet((n \div 64) % 64) ELSE "=")
             \o (IF Len(s) >= 3 THEN Sextet(n % 64) ELSE "=")
             \o (IF Len(s) > 3 THEN EncodeToString(From(s, 3)) ELSE "")

\* wrapPythonScript: the script as it is when one of ten substrings occurs
\* in it, else the wrapper around its base64 form
wrapPythonScript(script) ==
    LET trimmed == TrimSpace(script)
        markers == {"print(", "print ", "import ", "def ", "class ", "if ", "for ", "while ",
                    "with ", "try:"}
        encoded == EncodeToString(script)
    IN  IF \E m \in markers : Contains(trimmed, m) THEN script
        ELSE "import base64\n"
             \o "_code = base64.b64decode(\"" \o encoded \o "\").decode(\"utf-8\")\n"
             \o "try:\n"
             \o "    _result = eval(compile(_code, '<input>', 'eval'))\n"
             \o "    if _result is not None:\n"
             \o "        print(repr(_result))\n"
             \o "except SyntaxError:\n"
             \o "    exec(compile(_code, '<input>', 'exec'))\n"

DefaultPath == "PATH=/usr/local/bin:/usr/bin:/bin"

buildEnvironmentInheritsAll(cfg, parent) ==
    LET Orders(keys) ==
            { o \in [1..Cardinality(keys) -> keys] :
                \A i, j \in 1..Cardinality(keys) : i # j => o[i] # o[j] }
    IN  { LET env == [i \in 1..Len(p) |-> p[i] \o "=" \o parent[p[i]]]
                     \o [i \in 1..Len(o) |-> o[i] \o "=" \o cfg.CustomEnv[o[i]]]
          IN  IF \E i \in 1..Len(env) : HasPrefix(env[i], "PATH=") THEN env
              ELSE Append(env, DefaultPath) :
            o \in Orders(DOMAIN cfg.CustomEnv), p \in Orders(DOMAIN parent) }

\* ProcessSandbox.buildEnvironment: the allow-listed names os.LookupEnv finds
\* in the parent's environment, then the entries of CustomEnv, then the
\* default PATH unless an entry starts with PATH=. The result is the set of
\* environments it may return, one for each order in which the map CustomEnv
\* is iterated
buildEnvironment(cfg, parent) ==
    LET RECURSIVE Allowed(_)
        Allowed(names) ==
            IF names = <<>> THEN <<>>
            ELSE (IF Head(names) \in DOMAIN parent
                  THEN <<Head(names) \o "=" \o parent[Head(names)]>> ELSE <<>>)
                 \o Allowed(Tail(names))
        Orders(keys) ==
            { o \in [1..Cardinality(keys) -> keys] :
                \A i, j \in 1..Cardinality(keys) : i # j => o[i] # o[j] }
    IN  { LET env == Allowed(cfg.AllowedEnv)
                     \o [i \in 1..Len(o) |-> o[i] \o "=" \o cfg.CustomEnv[o[i]]]
          IN  IF \E i \in 1..Len(env) : HasPrefix(env[i], "PATH=") THEN env
              ELSE Append(env, DefaultPath) :
            o \in Orders(DOMAIN cfg.CustomEnv) }

\* &limitedWriter{w: &buf, limit: limit}; broken: the goroutine that copies
\* the child's output has stopped after a short write
LimitedWriter(limit) == [buf |-> "", limit |-> limit, written |-> 0, broken |-> FALSE]

---------------------------------------------------------------------------
(* ProcessSandbox.Execute and ExecuteScript: one call is a sequence of      *)
(* steps, the child process and the contexts' deadlines move between them.  *)
(* Duration is left out of the result.                                      *)

\* the calls that may run at the same time
CallIds == {1, 2}

\* the most writes a child makes
MaxWrites == 2

\* the highest cap on the captured output, in bytes
MaxCap == 2

\* the environment of the parent process
ParentEnv == [k \in {"PATH", "SECRET"} |-> IF k = "PATH" THEN "/bin" ELSE "s3cr3t"]

\* sandbox.Config as agent.New makes it from sandbox.DefaultConfig and the
\* agent.Config (agent), with the environment of the parent process and
\* whether filepath.Abs(WorkingDir) fails
SandboxConfig(timeout, allowed, custom, cap, agent, parent, absFails) ==
    [WorkingDir |-> "/ws", Timeout |-> timeout, AllowedEnv |-> allowed, CustomEnv |-> custom,
     MaxOutputBytes |-> cap, CommandBlacklist |-> ResolveBlacklist(agent), parent |-> parent,
     absFails |-> absFails, agent |-> agent]

\* the configuration of an agent.Config that leaves the deny-list alone,
\* with a cap of one byte
PlainConfig ==
    SandboxConfig(30, <<"PATH", "HOME">>, <<>>, 1,
                  [DisableBlacklist |-> FALSE, CommandBlacklist |-> [nil |-> TRUE, items |-> <<>>]],
                  ParentEnv, FALSE)

\* the arguments of a call of Execute and the faults of its environment;
\* child is what the child does when left alone: its writes, then its exit
\* status (-2 for a child that never exits by itself)
ExecuteCall(command, args, child) ==
    [kind |-> "Execute", command |-> command, args |-> args, interpreter |-> "", script |-> "",
     child |-> child, callerDeadline |-> FALSE, tempFails |-> FALSE, writeFails |-> FALSE,
     startFails |-> FALSE]

\* *ExecutionResult: nil, or the result
NoResult == [nil |-> TRUE]

ExecutionResult(stdout, stderr, exitCode, timedOut) ==
    [nil |-> FALSE, Stdout |-> stdout, Stderr |-> stderr, ExitCode |-> exitCode,
     TimedOut |-> timedOut]

\* a call before it is made. ctxErr is the Err() of the context the command
\* runs with, callerErr that of the caller's context; ctxBy and ctxAt record
\* what made the context done and the state of the child at that moment.
\* runErr is the error of cmd.Run: nil, an *exec.ExitError with its exit
\* code, or another error
Call0(in) ==
    [in |-> in, pc |-> "idle", callerErr |-> Nil, ctxErr |-> Nil, ctxBy |-> "", ctxAt |-> "",
     timer |-> FALSE, script |-> in.script, tmpPath |-> "", created |-> FALSE,
     proc |-> "none", started |-> FALSE, next |-> 1, env |-> <<>>,
     stdout |-> LimitedWriter(0), stderr |-> LimitedWriter(0), returns |-> <<>>,
     runErr |-> [kind |-> "nil"], result |-> NoResult, err |-> Nil, request |-> FALSE]

\* a call returns: the deferred cancel() stops the timer
Returned(c, result, e) ==
    [c EXCEPT !.pc = "returned", !.result = result, !.err = e, !.timer = FALSE]

\* the temporary directory after os.Remove(path); the path of a call that
\* made no file is empty
Removed(files, path) == [f \in DOMAIN files \ {path} |-> files[f]]

SbCheckCommandsOnly ==
    /\ \E id \in CallIds :
        /\ execs[id].pc = "idle"
        /\ LET in == execs[id].in
               e == IF in.kind = "Execute"
                    THEN checkBlacklist(sb.CommandBlacklist,
                                        in.command \o " " \o Join(in.args, " "))
                    ELSE Nil
           IN  execs' = [execs EXCEPT ![id] =
                            IF e # Nil THEN Returned(@, NoResult, e)
                            ELSE [@ EXCEPT !.pc = "timeout"]]
    /\ UNCHANGED <<sb, tmpfs>>
    /\ UNCHANGED <<avars, svars, fvars, dvars>>

\* the call is made: checkBlacklist on the command line or on the script
SbCheck ==
    /\ \E id \in CallIds :
        /\ execs[id].pc = "idle"
        /\ LET in == execs[id].in
               input == IF in.kind = "Execute"
                        THEN in.command \o " " \o Join(in.args, " ") ELSE in.script
               e == checkBlacklist(sb.CommandBlacklist, input)
           IN  execs' = [execs EXCEPT ![id] =
                            IF e # Nil THEN Returned(@, NoResult, e)
                            ELSE [@ EXCEPT !.pc = "timeout"]]
    /\ UNCHANGED <<sb, tmpfs>>
    /\ UNCHANGED <<avars, svars, fvars, dvars>>

\* context.WithTimeout when Timeout > 0
SbTimeout ==
    /\ \E id \in CallIds :
        /\ execs[id].pc = "timeout"
        /\ execs' = [execs EXCEPT ![id].timer = sb.Timeout > 0,
                                  ![id].pc = IF execs[id].in.kind = "Execute"
                                             THEN "run" ELSE "wrap"]
    /\ UNCHANGED <<sb, tmpfs>>
    /\ UNCHANGED <<avars, svars, fvars, dvars>>

\* ExecuteScript: the Python wrapper
SbWrap ==
    /\ \E id \in CallIds :
        /\ execs[id].pc = "wrap"
        /\ execs' = [execs EXCEPT ![id].script =
                                      IF execs[id].in.interpreter \in {"python", "python3"}
                                      THEN wrapPythonScript(@) ELSE @,
                                  ![id].pc = "temp"]
    /\ UNCHANGED <<sb, tmpfs>>
    /\ UNCHANGED <<avars, svars, fvars, dvars>>

\* os.CreateTemp: a file that did not exist is created, its name has one of
\* two random parts
SbCreateTemp ==
    \* ExecuteScript: the suffix of the temporary file
    LET ScriptExt(interpreter) ==
            CASE interpreter \in {"python", "python3"} -> ".py"
              [] interpreter \in {"node", "nodejs"} -> ".js"
              [] interpreter \in {"bash", "sh"} -> ".sh"
              [] interpreter = "go" -> ".go"
              [] OTHER -> ".tmp"
    IN
    /\ \E id \in CallIds :
        /\ execs[id].pc = "temp"
        /\ IF execs[id].in.tempFails
           THEN /\ execs' = [execs EXCEPT ![id] =
                                Returned(@, NoResult,
                                         "failed to create temp script: permission denied")]
                /\ tmpfs' = tmpfs
           ELSE \E r \in {"1", "2"} :
                    LET path == "/tmp/looper-script-" \o r \o ScriptExt(execs[id].in.interpreter)
                    IN  /\ path \notin DOMAIN tmpfs
                        /\ tmpfs' = [f \in DOMAIN tmpfs \cup {path} |->
                                        IF f = path THEN id ELSE tmpfs[f]]
                        /\ execs' = [execs EXCEPT ![id].tmpPath = path,
                                                  ![id].created = TRUE,
                                                  ![id].pc = "write"]
    /\ UNCHANGED sb
    /\ UNCHANGED <<avars, svars, fvars, dvars>>

SbWriteScriptKeepsFileOnFailure ==
    /\ \E id \in CallIds :
        /\ execs[id].pc = "write"
        /\ execs' = [execs EXCEPT ![id] =
                        IF execs[id].in.writeFails
                        THEN Returned(@, NoResult,
                                      "failed to write script: no space left on device")
                        ELSE [@ EXCEPT !.pc = "run"]]
        /\ tmpfs' = tmpfs
    /\ UNCHANGED sb
    /\ UNCHANGED <<avars, svars, fvars, dvars>>

\* tmpFile.WriteString(script); a failure returns through the deferred Remove
SbWriteScript ==
    /\ \E id \in CallIds :
        /\ execs[id].pc = "write"
        /\ execs' = [execs EXCEPT ![id] =
                        IF execs[id].in.writeFails
                        THEN Returned(@, NoResult,
                                      "failed to write script: no space left on device")
                        ELSE [@ EXCEPT !.pc = "run"]]
        /\ tmpfs' = IF execs[id].in.writeFails THEN Removed(tmpfs, execs[id].tmpPath)
                    ELSE tmpfs
    /\ UNCHANGED sb
    /\ UNCHANGED <<avars, svars, fvars, dvars>>

\* runCommand up to the start of the process in cmd.Run: the working
\* directory, the environment, the writers, cmd.Start. A command that was
\* not found, or whose context is done, is not started.
SbStart ==
    /\ \E id \in CallIds :
        /\ execs[id].pc = "run"
        /\ IF sb.absFails
           THEN /\ execs' = [execs EXCEPT ![id] =
                                Returned(@, NoResult, "invalid working directory: getwd failed")]
                /\ tmpfs' = Removed(tmpfs, execs[id].tmpPath)
           ELSE /\ \E env \in buildEnvironment(sb, sb.parent) :
                    execs' = [execs EXCEPT ![id] =
                        LET c == [@ EXCEPT !.env = env,
                                           !.stdout = LimitedWriter(sb.MaxOutputBytes),
                                           !.stderr = LimitedWriter(sb.MaxOutputBytes)]
                        IN  IF c.in.startFails
                            THEN [c EXCEPT !.pc = "after",
                                           !.runErr = [kind |-> "other",
                                                       msg |-> "executable file not found in $PATH"]]
                            ELSE IF c.ctxErr # Nil
                            THEN [c EXCEPT !.pc = "after",
                                           !.runErr = [kind |-> "other", msg |-> c.ctxErr]]
                            ELSE [c EXCEPT !.pc = "wait", !.proc = "running", !.started = TRUE]]
                /\ tmpfs' = tmpfs
    /\ UNCHANGED sb
    /\ UNCHANGED <<avars, svars, fvars, dvars>>

\* the child writes to stdout or stderr and the copying goroutine passes
\* the bytes to the limitedWriter; a Write that reports fewer bytes than it
\* was given ends the copying with io.ErrShortWrite and the pipe is closed.
\* A child that writes to a closed pipe is ended by SIGPIPE or goes on.
ChildWrite ==
    \* limitedWriter.Write: p is re-sliced to the remaining room before the
    \* final return len(p), err, which so reports the length written
    LET Write(lw, p) ==
            IF lw.written >= lw.limit THEN [lw |-> lw, n |-> Len(p), err |-> Nil]
            ELSE LET remaining == lw.limit - lw.written
                     q == IF Len(p) > remaining THEN SubSeq(p, 1, remaining) ELSE p
                 IN  [lw |-> [lw EXCEPT !.buf = @ \o q, !.written = @ + Len(q)],
                      n |-> Len(q), err |-> Nil]
    IN
    /\ \E id \in CallIds :
        LET c == execs[id] IN
        /\ c.proc = "running"
        /\ c.next <= Len(c.in.child.writes)
        /\ LET w == c.in.child.writes[c.next]
               lw == IF w.stream = "stdout" THEN c.stdout ELSE c.stderr
           IN  IF lw.broken
               THEN \E sigpipe \in BOOLEAN :
                        execs' = [execs EXCEPT ![id].next = @ + 1,
                                               ![id].proc = IF sigpipe THEN "signalled" ELSE @]
               ELSE LET r == Write(lw, w.data)
                        lw1 == [r.lw EXCEPT !.broken = r.n < Len(w.data)]
                    IN  execs' = [execs EXCEPT
                            ![id].next = @ + 1,
                            ![id].returns = Append(@, [stream |-> w.stream, len |-> Len(w.data),
                                                        n |-> r.n, err |-> r.err]),
                            ![id].stdout = IF w.stream = "stdout" THEN lw1 ELSE @,
                            ![id].stderr = IF w.stream = "stderr" THEN lw1 ELSE @]
    /\ UNCHANGED <<sb, tmpfs>>
    /\ UNCHANGED <<avars, svars, fvars, dvars>>

\* the child exits by itself after its writes
ChildExit ==
    /\ \E id \in CallIds :
        /\ execs[id].proc = "running"
        /\ execs[id].next > Len(execs[id].in.child.writes)
        /\ execs[id].in.child.exit # -2
        /\ execs' = [execs EXCEPT ![id].proc = "exited"]
    /\ UNCHANGED <<sb, tmpfs>>
    /\ UNCHANGED <<avars, svars, fvars, dvars>>

KillChildOnlyAtSandboxDeadline ==
    /\ \E id \in CallIds :
        /\ execs[id].proc = "running"
        /\ execs[id].ctxBy = "sandbox"
        /\ execs' = [execs EXCEPT ![id].proc = "killed"]
    /\ UNCHANGED <<sb, tmpfs>>
    /\ UNCHANGED <<avars, svars, fvars, dvars>>

\* exec.CommandContext: the process is killed once the context is done
KillChild ==
    /\ \E id \in CallIds :
        /\ execs[id].proc = "running"
        /\ execs[id].ctxErr # Nil
        /\ execs' = [execs EXCEPT ![id].proc = "killed"]
    /\ UNCHANGED <<sb, tmpfs>>
    /\ UNCHANGED <<avars, svars, fvars, dvars>>

\* cmd.Run returns when the process has ended: the error of the process
\* state (exit code -1 for a process ended by a signal), else the error of
\* the goroutines that copy the output. When the context became done about
\* the time the child exited with status 0, Run returns the context's error
\* or not, depending on whether the kill reached the process and on the
\* version of os/exec.
SbRunReturns ==
    /\ \E id \in CallIds :
        LET c == execs[id] IN
        /\ c.pc = "wait"
        /\ c.proc \in {"exited", "killed", "signalled"}
        /\ \E late \in BOOLEAN :
              execs' = [execs EXCEPT
                  ![id].pc = "after",
                  ![id].runErr =
                      IF late /\ c.proc = "exited" /\ c.in.child.exit = 0 /\ c.ctxErr # Nil
                      THEN [kind |-> "other", msg |-> c.ctxErr]
                      ELSE IF c.proc \in {"killed", "signalled"}
                      THEN [kind |-> "exit", code |-> -1]
                      ELSE IF c.in.child.exit # 0
                      THEN [kind |-> "exit", code |-> c.in.child.exit]
                      ELSE IF c.stdout.broken \/ c.stderr.broken
                      THEN [kind |-> "other", msg |-> "short write"]
                      ELSE [kind |-> "nil"]]
    /\ UNCHANGED <<sb, tmpfs>>
    /\ UNCHANGED <<avars, svars, fvars, dvars>>

AfterRunExitCodeFirst(c) ==
    LET result == ExecutionResult(c.stdout.buf, c.stderr.buf, 0, FALSE) IN
    IF c.runErr.kind = "exit"
    THEN Returned(c, [result EXCEPT !.ExitCode = c.runErr.code], Nil)
    ELSE IF c.runErr.kind = "other"
    THEN Returned(c, NoResult, "execution failed: " \o c.runErr.msg)
    ELSE IF c.ctxErr = "context deadline exceeded"
    THEN Returned(c, [result EXCEPT !.TimedOut = TRUE, !.ExitCode = -1], Nil)
    ELSE Returned(c, result, Nil)

\* runCommand after cmd.Run: the timeout check, then the exit code
AfterRun(c) ==
    LET result == ExecutionResult(c.stdout.buf, c.stderr.buf, 0, FALSE) IN
    IF c.ctxErr = "context deadline exceeded"
    THEN Returned(c, [result EXCEPT !.TimedOut = TRUE, !.ExitCode = -1], Nil)
    ELSE IF c.runErr.kind = "exit"
    THEN Returned(c, [result EXCEPT !.ExitCode = c.runErr.code], Nil)
    ELSE IF c.runErr.kind = "other"
    THEN Returned(c, NoResult, "execution failed: " \o c.runErr.msg)
    ELSE Returned(c, result, Nil)

\* the rest of runCommand and the return of the call, through the deferred
\* Remove of ExecuteScript
SbPostRun ==
    /\ \E id \in CallIds :
        /\ execs[id].pc = "after"
        /\ execs' = [execs EXCEPT ![id] = AfterRun(@)]
        /\ tmpfs' = Removed(tmpfs, execs[id].tmpPath)
    /\ UNCHANGED sb
    /\ UNCHANGED <<avars, svars, fvars, dvars>>

\* the caller's context becomes done during the call, by cancellation or
\* by a deadline of its own; the context the command runs with is derived
\* from it and keeps the first cause
CallerDone ==
    /\ \E id \in CallIds :
        /\ execs[id].pc \notin {"none", "idle", "returned", "loop"}
        /\ execs[id].callerErr = Nil
        /\ \E cause \in {ErrCanceled} \cup (IF execs[id].in.callerDeadline
                                            THEN {"context deadline exceeded"} ELSE {}) :
              execs' = [execs EXCEPT ![id] =
                  IF execs[id].ctxErr = Nil
                  THEN [@ EXCEPT !.callerErr = cause, !.ctxErr = cause, !.ctxBy = "caller",
                                 !.ctxAt = execs[id].proc]
                  ELSE [@ EXCEPT !.callerErr = cause]]
    /\ UNCHANGED <<sb, tmpfs>>
    /\ UNCHANGED <<avars, svars, fvars, dvars>>

\* the deadline set by context.WithTimeout passes
SandboxDeadline ==
    /\ \E id \in CallIds :
        /\ execs[id].timer
        /\ execs[id].ctxErr = Nil
        /\ execs' = [execs EXCEPT ![id].ctxErr = "context deadline exceeded",
                                  ![id].ctxBy = "sandbox",
                                  ![id].ctxAt = execs[id].proc]
    /\ UNCHANGED <<sb, tmpfs>>
    /\ UNCHANGED <<avars, svars, fvars, dvars>>

\* after the tool has returned the loop comes to the head of its next
\* iteration with the caller's context: request records that it goes on to
\* a completion request
BackToLoop ==
    /\ \E id \in CallIds :
        /\ execs[id].pc = "returned"
        /\ execs' = [execs EXCEPT ![id].pc = "loop",
                                  ![id].request =
                                      ~IterationHead(config, ctx, execs[id].callerErr # Nil).exit]
    /\ UNCHANGED <<sb, tmpfs>>
    /\ UNCHANGED <<avars, svars, fvars, dvars>>

\* no sandbox call is made
NoSandbox ==
    /\ sb = PlainConfig
    /\ execs = [id \in CallIds |->
                   [Call0(ExecuteCall("", <<>>, [writes |-> <<>>, exit |-> 0])) EXCEPT !.pc = "none"]]
    /\ tmpfs = <<>>

---------------------------------------------------------------------------
(* The file tools read_file, write_file, list_dir and grep (pkg/tools):     *)
(* paths as package path/filepath computes them on a system whose separator *)
(* is the slash, and a file system of directories and text files.           *)

\* strings.Split for a separator of one character
Split(s, sep) ==
    LET RECURSIVE Seg(_, _)
        Seg(rest, cur) ==
            IF rest = "" THEN <<cur>>
            ELSE IF Char(rest, 1) = sep THEN <<cur>> \o Seg(From(rest, 1), "")
            ELSE Seg(From(rest, 1), cur \o Char(rest, 1))
    IN  Seg(s, "")

\* filepath.Clean: empty and . elements are dropped, an element and the ..
\* after it are dropped, a .. at the root is dropped, and the empty path
\* becomes .
Clean(path) ==
    LET rooted == HasPrefix(path, "/")
        RECURSIVE Walk(_, _)
        Walk(segs, out) ==
            IF segs = <<>> THEN out
            ELSE LET s == Head(segs) IN
                 IF s \in {"", "."} THEN Walk(Tail(segs), out)
                 ELSE IF s = ".."
                 THEN IF out # <<>> /\ out[Len(out)] # ".."
                      THEN Walk(Tail(segs), SubSeq(out, 1, Len(out) - 1))
                      ELSE IF rooted THEN Walk(Tail(segs), out)
                      ELSE Walk(Tail(segs), Append(out, ".."))
                 ELSE Walk(Tail(segs), Append(out, s))
        body == Join(Walk(Split(path, "/"), <<>>), "/")
    IN  IF rooted THEN "/" \o body
        ELSE IF body = "" THEN "."
        ELSE body

\* filepath.Join of two elements: the elements from the first non-empty one
\* on are joined with a slash and cleaned
FilepathJoin(a, b) ==
    IF a = "" /\ b = "" THEN ""
    ELSE IF a = "" THEN Clean(b)
    ELSE Clean(a \o "/" \o b)

\* filepath.Abs in the working directory cwd
Abs(path, cwd) == IF HasPrefix(path, "/") THEN Clean(path) ELSE FilepathJoin(cwd, path)

\* the tools of one agent: the workspace root they were made with, and the
\* working directory of the process
FileTools(workspaceRoot, cwd) == [workspaceRoot |-> workspaceRoot, cwd |-> cwd]

\* "Validate path is within workspace": the test the four tools make on the
\* joined path
PathAccepted(t, fullPath) == HasPrefix(Abs(fullPath, t.cwd), Abs(t.workspaceRoot, t.cwd))

\* the lines bufio.Scanner gives for a text without carriage returns
Lines(content) ==
    IF content = "" THEN <<>>
    ELSE IF Char(content, Len(content)) = "\n"
    THEN Split(SubSeq(content, 1, Len(content) - 1), "\n")
    ELSE Split(content, "\n")

\* the file system at the start: the workspace /ws, a directory beside it
\* whose name starts with the same letters, and /etc
FileSystem0 ==
    [dirs |-> {"/", "/ws", "/ws-evil", "/etc"},
     files |-> [p \in {"/ws/a.txt", "/ws-evil/x", "/etc/passwd"} |->
                  CASE p = "/ws/a.txt" -> "x\ny\n"
                    [] p = "/ws-evil/x" -> "key"
                    [] OTHER -> "root"]]

\* the names in a directory, in the order of sort.Strings, directories
\* with a slash after the name
Entries(f, dir) ==
    LET prefix == IF dir = "/" THEN "/" ELSE dir \o "/"
        IsChild(p) == /\ p # dir
                      /\ HasPrefix(p, prefix)
                      /\ ~Contains(From(p, Len(prefix)), "/")
        sorted == <<"a.txt", "b.txt", "etc", "new", "new.txt", "passwd", "ws", "ws-evil", "x">>
        RECURSIVE Pick(_)
        Pick(names) ==
            IF names = <<>> THEN <<>>
            ELSE (IF IsChild(prefix \o Head(names)) /\ prefix \o Head(names) \in f.dirs
                  THEN <<[name |-> Head(names), dir |-> TRUE]>>
                  ELSE IF prefix \o Head(names) \in DOMAIN f.files
                  THEN <<[name |-> Head(names), dir |-> FALSE]>>
                  ELSE <<>>)
                 \o Pick(Tail(names))
    IN  Pick(sorted)

\* the most files the file system holds
MaxFiles == 4

\* the path arguments the tools are called with
ToolPaths ==
    {"", "a.txt", "sub/../a.txt", "new/b.txt", "../ws-evil", "../ws-evil/x", "../etc/passwd",
     "/etc/passwd"}

\* a call of a file tool that has returned: what it returned, and the
\* locations it handed to the operating system
FileCall(tool, path, result, e, touched) ==
    [tool |-> tool, path |-> path, result |-> result, err |-> e, touched |-> touched]

\* no file tool is called
NoFileTools ==
    /\ fileTools = FileTools("/ws", "/")
    /\ fs = FileSystem0
    /\ fileCall = FileCall("", "", "", Nil, {})

\* ReadFileTool.Execute without start_line and end_line
ReadFile ==
    /\ \E path \in ToolPaths, ctxDone \in BOOLEAN :
        LET fullPath == FilepathJoin(fileTools.workspaceRoot, path)
            loc == Abs(fullPath, fileTools.cwd)
            lines == Lines(fs.files[loc])
            RECURSIVE Numbered(_)
            Numbered(n) ==
                IF n > Len(lines) THEN <<>>
                ELSE <<"     " \o ToString(n) \o "|" \o lines[n]>> \o Numbered(n + 1)
        IN  fileCall' =
                IF path = "" THEN FileCall("read_file", path, "", "path is required", {})
                ELSE IF ~PathAccepted(fileTools, fullPath)
                THEN FileCall("read_file", path, "", "path must be within workspace", {})
                ELSE IF loc \notin fs.dirs \cup DOMAIN fs.files
                THEN FileCall("read_file", path, "", "file not found: " \o path, {loc})
                ELSE IF loc \in fs.dirs
                THEN FileCall("read_file", path, "", "path is a directory, not a file", {loc})
                ELSE IF ctxDone /\ lines # <<>>
                THEN FileCall("read_file", path, "", ErrCanceled, {loc})
                ELSE IF lines = <<>>
                THEN FileCall("read_file", path, "File is empty.", Nil, {loc})
                ELSE FileCall("read_file", path, Join(Numbered(1), "\n"), Nil, {loc})
    /\ UNCHANGED <<fileTools, fs>>
    /\ UNCHANGED <<avars, svars, bvars, dvars>>

\* WriteFileTool.Execute: os.MkdirAll on the directory of the path, then
\* os.WriteFile; the file system has room for MaxFiles files
WriteFile ==
    \* filepath.Dir: the path up to its last slash, cleaned
    LET Dir(path) ==
            LET slashes == { i \in 1..Len(path) : Char(path, i) = "/" } IN
            IF slashes = {} THEN "."
            ELSE Clean(SubSeq(path, 1, CHOOSE i \in slashes : \A j \in slashes : j <= i))
    IN
    /\ \E path \in ToolPaths, content \in {"z"}, ctxDone \in BOOLEAN :
        LET fullPath == FilepathJoin(fileTools.workspaceRoot, path)
            loc == Abs(fullPath, fileTools.cwd)
            dir == Abs(Dir(fullPath), fileTools.cwd)
            RECURSIVE Ancestors(_)
            Ancestors(d) == IF d = "/" THEN {"/"} ELSE {d} \cup Ancestors(Dir(d))
        IN  /\ loc \in DOMAIN fs.files \/ Cardinality(DOMAIN fs.files) < MaxFiles
            /\ IF path = ""
               THEN /\ fileCall' = FileCall("write_file", path, "", "path is required", {})
                    /\ fs' = fs
               ELSE IF ~PathAccepted(fileTools, fullPath)
               THEN /\ fileCall' = FileCall("write_file", path, "", "path must be within workspace", {})
                    /\ fs' = fs
               ELSE IF ctxDone
               THEN /\ fileCall' = FileCall("write_file", path, "", ErrCanceled, {})
                    /\ fs' = fs
               ELSE IF Ancestors(dir) \cap DOMAIN fs.files # {}
               THEN /\ fileCall' = FileCall("write_file", path, "",
                                            "failed to create directories: not a directory", {dir})
                    /\ fs' = fs
               ELSE IF loc \in fs.dirs \cup Ancestors(dir)
               THEN /\ fileCall' = FileCall("write_file", path, "",
                                            "failed to write file: is a directory", {dir, loc})
                    /\ fs' = [fs EXCEPT !.dirs = @ \cup Ancestors(dir)]
               ELSE /\ fileCall' = FileCall("write_file", path,
                                            (IF loc \in DOMAIN fs.files
                                             THEN "Successfully updated file: "
                                             ELSE "Successfully created file: ") \o path,
                                            Nil, {dir, loc})
                    /\ fs' = [dirs |-> fs.dirs \cup Ancestors(dir),
                              files |-> [p \in DOMAIN fs.files \cup {loc} |->
                                            IF p = loc THEN content ELSE fs.files[p]]]
    /\ UNCHANGED fileTools
    /\ UNCHANGED <<avars, svars, bvars, dvars>>

\* ListDirTool.Execute without recursive: listFlat
ListDir ==
    /\ \E path \in ToolPaths, ctxDone \in BOOLEAN :
        LET fullPath == FilepathJoin(fileTools.workspaceRoot, path)
            loc == Abs(fullPath, fileTools.cwd)
            shown == SelectSeq(Entries(fs, loc), LAMBDA e : ~HasPrefix(e.name, "."))
            names == [i \in 1..Len(shown) |->
                         IF shown[i].dir THEN shown[i].name \o "/" ELSE shown[i].name]
        IN  fileCall' =
                IF ~PathAccepted(fileTools, fullPath)
                THEN FileCall("list_dir", path, "", "path must be within workspace", {})
                ELSE IF loc \notin fs.dirs \cup DOMAIN fs.files
                THEN FileCall("list_dir", path, "", "directory not found: " \o path, {loc})
                ELSE IF loc \notin fs.dirs
                THEN FileCall("list_dir", path, "", "path is not a directory", {loc})
                ELSE IF ctxDone
                THEN FileCall("list_dir", path, "", ErrCanceled, {loc})
                ELSE IF names = <<>>
                THEN FileCall("list_dir", path, "Directory is empty.", Nil, {loc})
                ELSE FileCall("list_dir", path, Join(names, "\n"), Nil, {loc})
    /\ UNCHANGED <<fileTools, fs>>
    /\ UNCHANGED <<avars, svars, bvars, dvars>>

\* GrepTool.Execute for a pattern without metacharacters, without include,
\* case_insensitive and max_results: filepath.Walk over the search path in
\* lexical order, hidden directories and files skipped, the first error of
\* the walk function (ctx.Err()) ends the walk
Grep ==
    \* filepath.Rel for two cleaned absolute paths: a .. for each element of
    \* the base after the elements they share, then the rest of the target
    LET Rel(base, target) ==
            LET bs == SelectSeq(Split(base, "/"), LAMBDA e : e # "")
                ts == SelectSeq(Split(target, "/"), LAMBDA e : e # "")
                shared == { k \in 0..Len(bs) : k <= Len(ts) /\ SubSeq(bs, 1, k) = SubSeq(ts, 1, k) }
                k == CHOOSE n \in shared : \A m \in shared : m <= n
                out == [i \in 1..(Len(bs) - k) |-> ".."] \o SubSeq(ts, k + 1, Len(ts))
            IN  IF out = <<>> THEN "." ELSE Join(out, "/")
    IN
    /\ \E path \in ToolPaths, pattern \in {"", "key"}, ctxDone \in BOOLEAN :
        LET searchPath == IF path # "" THEN FilepathJoin(fileTools.workspaceRoot, path)
                          ELSE fileTools.workspaceRoot
            loc == Abs(searchPath, fileTools.cwd)
            root == Abs(fileTools.workspaceRoot, fileTools.cwd)
            RECURSIVE Files(_)
            Files(p) ==
                IF p \in DOMAIN fs.files THEN <<p>>
                ELSE IF p \notin fs.dirs THEN <<>>
                ELSE LET es == Entries(fs, p)
                         sub(e) == (IF p = "/" THEN "/" ELSE p \o "/") \o e.name
                         RECURSIVE Each(_)
                         Each(i) ==
                             IF i > Len(es) THEN <<>>
                             ELSE (IF HasPrefix(es[i].name, ".") THEN <<>>
                                   ELSE Files(sub(es[i])))
                                  \o Each(i + 1)
                     IN  Each(1)
            base == Split(loc, "/")[Len(Split(loc, "/"))]
            found == IF loc \in DOMAIN fs.files /\ HasPrefix(base, ".") THEN <<>> ELSE Files(loc)
            Matches(p) ==
                LET lines == Lines(fs.files[p])
                    RECURSIVE Line(_)
                    Line(n) ==
                        IF n > Len(lines) THEN <<>>
                        ELSE (IF Contains(lines[n], pattern)
                              THEN <<Rel(root, p) \o ":" \o ToString(n) \o ": " \o lines[n]>>
                              ELSE <<>>)
                             \o Line(n + 1)
                IN  Line(1)
            RECURSIVE Results(_)
            Results(i) == IF i > Len(found) THEN <<>> ELSE Matches(found[i]) \o Results(i + 1)
        IN  fileCall' =
                IF pattern = "" THEN FileCall("grep", path, "", "pattern is required", {})
                ELSE IF ~PathAccepted(fileTools, searchPath)
                THEN FileCall("grep", path, "", "path must be within workspace", {})
                ELSE IF ctxDone /\ found # <<>>
                THEN FileCall("grep", path, "", "search failed: " \o ErrCanceled, {loc})
                ELSE IF Results(1) = <<>>
                THEN FileCall("grep", path, "No matches found.", Nil, {loc})
                ELSE FileCall("grep", path, Join(Results(1), "\n"), Nil, {loc})
    /\ UNCHANGED <<fileTools, fs>>
    /\ UNCHANGED <<avars, svars, bvars, dvars>>


---------------------------------------------------------------------------
(* skills.Discovery: the index of the skill files, the cache of loaded     *)
(* skills and the sync.RWMutex that guards them, called by several         *)
(* goroutines. A call is a stack of frames, one per method entered; each    *)
(* frame stands at a lock operation or at the code between two of them.     *)

\* the goroutines that call the Discovery
DCallers == {1, 2}

\* a method entered: the statement it stands at, its name argument or loop
\* variable and the names its loop has still to visit
Frame(fn, at, name, todo) == [fn |-> fn, pc |-> at, name |-> name, todo |-> todo]

\* the statement a frame stands at. RLock, RUnlock and Lock name the
\* position that follows; Unlock also gives the Discovery as the critical
\* section leaves it; "do" is code outside the lock operations with its
\* outcomes: go on in the method, call a method, or return a value (returned is
\* the value the last method called has returned)
Program(fr, d, returned) ==
    \* the directories SetSkillsDir is called with and the skills found in
    \* them; "missing" does not exist
    LET DiskNames(dir) == IF dir = "skills" THEN {"a", "b"} ELSE {}
    IN
    LET At(at) == [fr EXCEPT !.pc = at]
        Op(op, next) == [op |-> op, next |-> next, disc |-> d, outs |-> {}]
        Goto(f) == [k |-> "goto", fr |-> f, callee |-> f, val |-> {}]
        Call(retpc, fn, name) ==
            [k |-> "call", fr |-> At(retpc), callee |-> Frame(fn, "enter", name, {}), val |-> {}]
        Ret(val) == [k |-> "ret", fr |-> fr, callee |-> fr, val |-> val]
        Do(outs) == [op |-> "do", next |-> "", disc |-> d, outs |-> outs]
        \* List, ListWithDescriptions, ListWithInfo: RLock, defer RUnlock, and
        \* the discovery on first use with the read lock given up around it
        ListHead(body) ==
            CASE fr.pc = "enter" -> Op("RLock", "check")
              [] fr.pc = "check" -> Do({Goto(At(IF d.discovered THEN body ELSE "release"))})
              [] fr.pc = "release" -> Op("RUnlock", "discover")
              [] fr.pc = "discover" -> Do({Call("relock", "Discover", "")})
              [] fr.pc = "relock" -> Op("RLock", body)
              [] fr.pc = "deferred" -> Op("RUnlock", "return")
        \* SetSkillsDir: the directory is the name argument
        SetSkillsDir ==
            CASE fr.pc = "enter" -> Op("Lock", "deferred")
              [] fr.pc = "deferred" ->
                    [Op("Unlock", "return") EXCEPT
                        !.disc = [d EXCEPT !.skillsDir = fr.name, !.discovered = FALSE,
                                           !.skills = {}, !.fileIndex = {}]]
              [] fr.pc = "return" -> Do({Ret({})})
        \* Discover: a missing directory leaves the index as it is
        Discover ==
            CASE fr.pc = "enter" -> Op("Lock", "deferred")
              [] fr.pc = "deferred" ->
                    [Op("Unlock", "return") EXCEPT
                        !.disc = [d EXCEPT !.discovered = TRUE,
                                           !.fileIndex = @ \cup DiskNames(d.skillsDir)]]
              [] fr.pc = "return" -> Do({Ret({})})
        List ==
            CASE fr.pc = "names" -> Do({Goto([At("deferred") EXCEPT !.todo = d.fileIndex])})
              [] fr.pc = "return" -> Do({Ret(fr.todo)})
              [] OTHER -> ListHead("names")
        \* ListWithDescriptions and ListWithInfo: the range over fileIndex with
        \* the read lock given up around d.Get(name) for a skill not cached
        ListWith ==
            CASE fr.pc = "range" -> Do({Goto([At("next") EXCEPT !.todo = d.fileIndex])})
              [] fr.pc = "next" ->
                    Do(IF fr.todo = {} THEN {Goto(At("deferred"))}
                       ELSE { Goto([At(IF n \in d.skills THEN "next" ELSE "unlock")
                                       EXCEPT !.name = n, !.todo = @ \ {n}]) : n \in fr.todo })
              [] fr.pc = "unlock" -> Op("RUnlock", "get")
              [] fr.pc = "get" -> Do({Call("lock", "Get", fr.name)})
              [] fr.pc = "lock" -> Op("RLock", "next")
              [] fr.pc = "return" -> Do({Ret({})})
              [] OTHER -> ListHead("range")
        \* Get: todo holds the name when fileIndex has it
        Get ==
            CASE fr.pc = "enter" -> Op("RLock", "cache")
              [] fr.pc = "cache" -> Do({Goto(At(IF fr.name \in d.skills THEN "hit" ELSE "miss"))})
              [] fr.pc = "hit" -> Op("RUnlock", "return")
              [] fr.pc = "miss" -> Op("RUnlock", "again")
              [] fr.pc = "again" -> Op("RLock", "check")
              [] fr.pc = "check" -> Do({Goto(At(IF d.discovered THEN "find" ELSE "release"))})
              [] fr.pc = "release" -> Op("RUnlock", "discover")
              [] fr.pc = "discover" -> Do({Call("relock", "Discover", "")})
              [] fr.pc = "relock" -> Op("RLock", "find")
              [] fr.pc = "find" ->
                    Do({Goto([At("found") EXCEPT !.todo = {fr.name} \cap d.fileIndex])})
              [] fr.pc = "found" -> Op("RUnlock", "load")
              [] fr.pc = "load" ->
                    \* not found; or d.loader.Load fails, or gives the skill
                    Do(IF fr.todo = {} THEN {Ret({})} ELSE {Ret({}), Goto(At("store"))})
              [] fr.pc = "store" -> Op("Lock", "stored")
              [] fr.pc = "stored" ->
                    [Op("Unlock", "return") EXCEPT
                        !.disc = [d EXCEPT !.skills = @ \cup {fr.name}]]
              [] fr.pc = "return" -> Do({Ret({})})
        GetAll ==
            CASE fr.pc = "enter" -> Do({Call("names", "List", "")})
              [] fr.pc = "names" -> Do({Goto([At("next") EXCEPT !.todo = returned])})
              [] fr.pc = "next" ->
                    Do(IF fr.todo = {} THEN {Ret({})}
                       ELSE { Call("next", "Get", n) : n \in fr.todo })
        Refresh ==
            CASE fr.pc = "enter" -> Op("Lock", "clear")
              [] fr.pc = "clear" ->
                    [Op("Unlock", "discover") EXCEPT
                        !.disc = [d EXCEPT !.skills = {}, !.fileIndex = {},
                                           !.discovered = FALSE]]
              [] fr.pc = "discover" -> Do({Call("return", "Discover", "")})
              [] fr.pc = "return" -> Do({Ret({})})
    IN  CASE fr.fn = "SetSkillsDir" -> SetSkillsDir
          [] fr.fn = "Discover" -> Discover
          [] fr.fn = "List" -> List
          [] fr.fn \in {"ListWithDescriptions", "ListWithInfo"} -> ListWith
          [] fr.fn = "Get" -> Get
          [] fr.fn = "GetAll" -> GetAll
          [] fr.fn = "Refresh" -> Refresh

InstrNestedRead(t) ==
    IF dcalls[t].stack = <<>> THEN [op |-> "none", next |-> "", disc |-> disc, outs |-> {}]
    ELSE LET fr == Head(dcalls[t].stack) IN
         IF fr.fn = "ListWithInfo" /\ fr.pc = "unlock"
         THEN [op |-> "do", next |-> "", disc |-> disc,
               outs |-> {[k |-> "call", fr |-> [fr EXCEPT !.pc = "next"],
                          callee |-> Frame("Get", "enter", fr.name, {}), val |-> {}]}]
         ELSE Program(fr, disc, dcalls[t].ret)

\* the statement goroutine t stands at; a goroutine that is in no call
\* stands nowhere
Instr(t) ==
    IF dcalls[t].stack = <<>> THEN [op |-> "none", next |-> "", disc |-> disc, outs |-> {}]
    ELSE Program(Head(dcalls[t].stack), disc, dcalls[t].ret)

\* goroutine t has gone on to the position at of its method
Advanced(cs, t, at) == [cs EXCEPT ![t].stack[1].pc = at]

\* no goroutine calls the Discovery
NoDiscovery ==
    \* NewDiscovery; mu: the read locks held (per goroutine that took them),
    \* the goroutine that has announced a write lock (0 for none) and whether
    \* it holds it; fault: an unlock of a lock that is not held
    LET Discovery0 ==
            [skillsDir |-> "skills", discovered |-> FALSE, skills |-> {}, fileIndex |-> {},
             readers |-> [t \in DCallers |-> 0], writer |-> 0, held |-> FALSE, fault |-> FALSE]
    IN
    /\ disc = Discovery0
    /\ dcalls = [t \in DCallers |-> [stack |-> <<>>, wait |-> "", ret |-> {}]]

\* a goroutine calls one of the public methods
DStart ==
    /\ \E t \in DCallers :
       \E fn \in {"List", "ListWithDescriptions", "ListWithInfo", "Get", "GetAll", "Refresh",
                  "Discover", "SetSkillsDir"} :
       \E name \in (CASE fn = "Get" -> {"a", "c"}
                      [] fn = "SetSkillsDir" -> {"skills", "missing"}
                      [] OTHER -> {""}) :
            /\ dcalls[t].stack = <<>>
            /\ dcalls' = [dcalls EXCEPT ![t].stack = <<Frame(fn, "enter", name, {})>>,
                                        ![t].ret = {}]
    /\ UNCHANGED disc
    /\ UNCHANGED <<avars, svars, bvars, fvars>>

\* d.mu.RLock(): taken at once unless a writer has announced itself, else
\* the goroutine sleeps until that writer unlocks
DRLock ==
    /\ \E t \in DCallers :
        /\ Instr(t).op = "RLock"
        /\ dcalls[t].wait = ""
        /\ IF disc.writer = 0
           THEN /\ disc' = [disc EXCEPT !.readers[t] = @ + 1]
                /\ dcalls' = Advanced(dcalls, t, Instr(t).next)
           ELSE /\ disc' = disc
                /\ dcalls' = [dcalls EXCEPT ![t].wait = "r"]
    /\ UNCHANGED <<avars, svars, bvars, fvars>>

\* d.mu.RUnlock()
DRUnlock ==
    /\ \E t \in DCallers :
        /\ Instr(t).op = "RUnlock"
        /\ disc' = IF disc.readers[t] = 0 THEN [disc EXCEPT !.fault = TRUE]
                   ELSE [disc EXCEPT !.readers[t] = @ - 1]
        /\ dcalls' = Advanced(dcalls, t, Instr(t).next)
    /\ UNCHANGED <<avars, svars, bvars, fvars>>

\* d.mu.Lock(): the writers' mutex is taken and the writer announced; the
\* lock is held at once when no read lock is held
DLock ==
    /\ \E t \in DCallers :
        /\ Instr(t).op = "Lock"
        /\ dcalls[t].wait = ""
        /\ disc.writer = 0
        /\ IF \A u \in DCallers : disc.readers[u] = 0
           THEN /\ disc' = [disc EXCEPT !.writer = t, !.held = TRUE]
                /\ dcalls' = Advanced(dcalls, t, Instr(t).next)
           ELSE /\ disc' = [disc EXCEPT !.writer = t]
                /\ dcalls' = [dcalls EXCEPT ![t].wait = "w"]
    /\ UNCHANGED <<avars, svars, bvars, fvars>>

\* the last read lock is given up: the announced writer holds the lock
DLockAcquire ==
    /\ \E t \in DCallers :
        /\ dcalls[t].wait = "w"
        /\ disc.writer = t
        /\ \A u \in DCallers : disc.readers[u] = 0
        /\ disc' = [disc EXCEPT !.held = TRUE]
        /\ dcalls' = [Advanced(dcalls, t, Instr(t).next) EXCEPT ![t].wait = ""]
    /\ UNCHANGED <<avars, svars, bvars, fvars>>

\* d.mu.Unlock() at the end of a critical section: the goroutines that
\* sleep in RLock hold their read locks
DUnlock ==
    /\ \E t \in DCallers :
        /\ Instr(t).op = "Unlock"
        /\ LET d == Instr(t).disc
               woken == { u \in DCallers : dcalls[u].wait = "r" }
           IN  IF disc.writer # t \/ ~disc.held
               THEN /\ disc' = [disc EXCEPT !.fault = TRUE]
                    /\ dcalls' = Advanced(dcalls, t, Instr(t).next)
               ELSE /\ disc' = [d EXCEPT !.writer = 0, !.held = FALSE,
                                         !.readers = [u \in DCallers |->
                                                        IF u \in woken THEN @[u] + 1 ELSE @[u]]]
                    /\ dcalls' = [u \in DCallers |->
                                    IF u = t THEN Advanced(dcalls, t, Instr(t).next)[t]
                                    ELSE IF u \in woken
                                    THEN [Advanced(dcalls, u, Instr(u).next)[u] EXCEPT !.wait = ""]
                                    ELSE dcalls[u]]
    /\ UNCHANGED <<avars, svars, bvars, fvars>>

\* the code between two lock operations: a branch, a call or a return
DLocal ==
    /\ \E t \in DCallers :
        /\ Instr(t).op = "do"
        /\ \E o \in Instr(t).outs :
            dcalls' = [dcalls EXCEPT
                ![t] = CASE o.k = "goto" -> [@ EXCEPT !.stack[1] = o.fr]
                         [] o.k = "call" -> [@ EXCEPT !.stack = <<o.callee, o.fr>> \o Tail(@)]
                         [] o.k = "ret" -> [@ EXCEPT !.stack = Tail(@), !.ret = o.val]]
    /\ UNCHANGED disc
    /\ UNCHANGED <<avars, svars, bvars, fvars>>


\* agent.New: the context is new, the skills discovered are loaded
Init ==
    /\ config \in [MaxIterations : 0..MaxIterationsCfg, Streaming : BOOLEAN]
    /\ ctx = [NewContext("/ws") EXCEPT !.LoadedSkills = [n \in SkillNames |-> Skill(n)]]
    /\ pc = "idle"
    /\ mode = "run"
    /\ cancelled = FALSE
    /\ toolCalls = <<>>
    /\ tcIdx = 0
    /\ ret = ""
    /\ err = Nil
    /\ turn = Turn0(ctx)
    /\ added = 0
    /\ handler = NilHandler
    /\ hooks = <<>>
    /\ NoStream
    /\ NoSandbox
    /\ NoFileTools
    /\ NoDiscovery

Next ==
    \/ StartRun
    \/ StartRunStream
    \/ LoopTop
    \/ Complete
    \/ CompleteStream
    \/ ExecTool
    \/ Cancel
    \/ Reset
    \/ AgentLoadSkill

Spec == Init /\ [][Next]_vars

\* agent.New, and a caller that passes RunStream one of the handlers
HookInit ==
    \* the handlers a caller may pass
    LET Handlers == {NilHandler, EmptyHandler, FullHandler}
    IN
    /\ config \in [MaxIterations : {MaxIterationsCfg}, Streaming : BOOLEAN]
    /\ ctx = [NewContext("/ws") EXCEPT !.LoadedSkills = [n \in SkillNames |-> Skill(n)]]
    /\ pc = "idle"
    /\ mode = "run"
    /\ cancelled = FALSE
    /\ toolCalls = <<>>
    /\ tcIdx = 0
    /\ ret = ""
    /\ err = Nil
    /\ turn = Turn0(ctx)
    /\ added = 0
    /\ handler \in Handlers
    /\ hooks = <<>>
    /\ NoStream
    /\ NoSandbox
    /\ NoFileTools
    /\ NoDiscovery

HookSpec == HookInit /\ [][Next]_vars

\* one call of CompleteStream has returned the channel: the goroutine is at
\* the head of its loop and RunStream at the head of its range
StreamInit ==
    \* the lines an Anthropic body is made of
    LET AnthropicLines ==
            LET MessageStop == [kind |-> "message_stop"]
                MessageDelta(out) == [kind |-> "message_delta", OutputTokens |-> out]
                ContentBlockStop(index) == [kind |-> "content_block_stop", Index |-> index]
                InputJSONDelta(index, partial) ==
                    [kind |-> "content_block_delta", Type |-> "input_json_delta", Index |-> index,
                     PartialJSON |-> partial]
                TextDelta(text) == [kind |-> "content_block_delta", Type |-> "text_delta", Text |-> text]
            IN
            \* the events of the Anthropic stream
            LET ContentBlockStart(index, id, name) ==
                    [kind |-> "content_block_start", Index |-> index, Type |-> "tool_use", ID |-> id,
                     Name |-> name]
            IN
            { ContentBlockStart(0, "call_1", "read_file"),
              InputJSONDelta(0, "{}"),
              ContentBlockStop(0),
              TextDelta("hi"),
              MessageDelta(5),
              MessageStop }
    IN
    \* the lines an OpenAI body is made of: text with the usage, the name of
    \* call 0, the id of call 0, an arguments fragment of call 0, call 1 in one
    \* chunk, and the end mark
    LET OpenAILines ==
            \* one element of choices[0].delta.tool_calls
            LET ToolCallChunk(index, id, name, arguments) ==
                    [Index |-> index, ID |-> id, Name |-> name, Arguments |-> arguments]
            IN
            \* "data: [DONE]"
            LET DoneLine == [kind |-> "[DONE]"]
            IN
            { OpenAIChunk("hi", <<>>, <<Usage(3, 5)>>),
              OpenAIChunk("", <<ToolCallChunk(0, "", "read_file", "")>>, <<>>),
              OpenAIChunk("", <<ToolCallChunk(0, "call_1", "", "")>>, <<>>),
              OpenAIChunk("", <<ToolCallChunk(0, "", "", "{}")>>, <<>>),
              OpenAIChunk("", <<ToolCallChunk(1, "call_2", "list_dir", "null")>>, <<>>),
              DoneLine }
    IN
    \* the bodies of at most MaxWire lines
    LET Wires(lines) == UNION { [1..n -> lines] : n \in 0..MaxWire }
    IN
    LET Nets ==
            \* a body of FloodLen text chunks, each with a text of its own
            LET FloodWire == [i \in 1..FloodLen |-> OpenAIChunk(ToString(i), <<>>, <<>>)]
            IN
            { Net("openai", w) : w \in Wires(OpenAILines) \cup {FloodWire} }
            \cup { Net("anthropic", w) : w \in Wires(AnthropicLines) }
    IN
    /\ config = [MaxIterations |-> MaxIterationsCfg, Streaming |-> TRUE]
    /\ ctx = NewContext("/ws")
    /\ pc = "idle"
    /\ mode = "stream"
    /\ cancelled = FALSE
    /\ toolCalls = <<>>
    /\ tcIdx = 0
    /\ ret = ""
    /\ err = Nil
    /\ turn = Turn0(ctx)
    /\ added = 0
    /\ handler = NilHandler
    /\ hooks = <<>>
    /\ net \in Nets
    /\ prod = Prod0
    /\ chan = Chan0
    /\ cons = Cons0
    /\ sent = <<>>
    /\ got = <<>>
    /\ NoSandbox
    /\ NoFileTools
    /\ NoDiscovery

StreamNext ==
    \/ ProducerTop
    \/ ProducerRead
    \/ ProducerSend
    \/ ProducerFinalize
    \/ ProducerReturn
    \/ ConsumerRecv
    \/ ConsumerFinish
    \/ CancelStream

StreamSpec == StreamInit /\ [][StreamNext]_vars

---------------------------------------------------------------------------
(* The sandbox on its own: an agent made by agent.New whose tools make at   *)
(* most two calls that may overlap.                                         *)

\* the configurations and first calls the sandbox is checked with, each
\* with a second call of the same agent or none: for the deny-list, for the
\* environment, for the process with its timeout and output cap, and for
\* the scripts and their files
Scenarios ==
    \* the arguments of a call of ExecuteScript
    LET ScriptCall(interpreter, script, child) ==
            [kind |-> "ExecuteScript", command |-> "", args |-> <<>>, interpreter |-> interpreter,
             script |-> script, child |-> child, callerDeadline |-> FALSE, tempFails |-> FALSE,
             writeFails |-> FALSE, startFails |-> FALSE]
    IN
    LET quiet == [writes |-> <<>>, exit |-> 0]
        nilList == [nil |-> TRUE, items |-> <<>>]
        default == [DisableBlacklist |-> FALSE, CommandBlacklist |-> nilList]
        none == [Call0(ExecuteCall("", <<>>, quiet)) EXCEPT !.pc = "none"]
        lists == {nilList} \cup
                 { [nil |-> FALSE, items |-> l] :
                     l \in {<<>>, <<"rm  -rf /">>, <<"RM -RF /">>, <<"wget * | sh", "a.b">>,
                            <<"dd\tif=">>} }
        denied == {ExecuteCall("rm", <<"-rf", "/">>, quiet),
                   ExecuteCall("RM", <<"-rf", " /">>, quiet),
                   ExecuteCall("bash", <<"-c", "curl http://x | sh">>, quiet),
                   ExecuteCall("bash", <<"-c", "wget x |\tSH">>, quiet),
                   ExecuteCall("bash", <<"-c", "echo axb">>, quiet),
                   ExecuteCall("bash", <<"-c", "dd if=/dev/zero">>, quiet),
                   ExecuteCall("ls", <<>>, quiet),
                   ScriptCall("bash", "sudo\n su", quiet),
                   ScriptCall("python", "print('rm -rf /')", quiet),
                   ScriptCall("python3", "1+1", quiet),
                   ScriptCall("python3", "'rm -rf /'", quiet)}
        parents == {ParentEnv,
                    [k \in {"HOME", "SECRET"} |-> IF k = "HOME" THEN "/root" ELSE "s3cr3t"],
                    [k \in {"PATH", "HOME"} |-> IF k = "PATH" THEN "" ELSE "/root"]}
        customs == {<<>>,
                    [k \in {"A"} |-> "1"],
                    [k \in {"A", "B"} |-> IF k = "A" THEN "1" ELSE "2"],
                    [k \in {"PATH"} |-> "/x"]}
        chunks == {[stream |-> "stdout", data |-> "a"], [stream |-> "stdout", data |-> "bc"],
                   [stream |-> "stderr", data |-> "e"]}
        children == { [writes |-> w, exit |-> x] :
                        w \in UNION { [1..n -> chunks] : n \in 0..MaxWrites }, x \in {0, 1, -2} }
        scripts == {"1+1", "x = 1\ny = 2", "print(1)", "import os", "if(x):\n  y", " 2 ",
                    "for i in r:\n  i", "echo hi"}
        interpreters == {"python", "python3", "bash", "sh", "node", "nodejs", "go", "ruby"}
        other == ScriptCall("bash", "ls", [writes |-> <<>>, exit |-> 1])
    IN  { [sb |-> SandboxConfig(30, <<"PATH">>, <<>>, 1,
                                [DisableBlacklist |-> d, CommandBlacklist |-> l], ParentEnv, FALSE),
           first |-> Call0(in), second |-> none] :
            d \in BOOLEAN, l \in lists, in \in denied }
        \cup
        { [sb |-> SandboxConfig(30, allowed, custom, 1, default, parent, FALSE),
           first |-> Call0(in), second |-> none] :
            allowed \in {<<>>, <<"PATH">>, <<"PATH", "HOME">>, <<"SECRET", "LANG">>},
            custom \in customs, parent \in parents,
            in \in {[ExecuteCall("nosuch", <<>>, quiet) EXCEPT !.startFails = TRUE],
                    ExecuteCall("ls", <<>>, quiet)} }
        \cup
        { [sb |-> SandboxConfig(tc[1], <<"PATH">>, <<>>, tc[2], default, ParentEnv, FALSE),
           first |-> Call0([ExecuteCall("bash", <<"-c", "work">>, ch)
                               EXCEPT !.callerDeadline = dl]),
           second |-> none] :
            tc \in ({30} \X (0..MaxCap)) \cup {<<0, 1>>}, ch \in children, dl \in BOOLEAN }
        \cup
        { [sb |-> PlainConfig, first |-> Call0(ScriptCall(i, s, quiet)), second |-> none] :
            i \in {"python", "python3"}, s \in scripts }
        \cup
        { [sb |-> PlainConfig, first |-> Call0(ScriptCall(i, "echo hi", quiet)),
           second |-> none] : i \in interpreters }
        \cup
        { [sb |-> [PlainConfig EXCEPT !.absFails = a],
           first |-> Call0([ScriptCall("bash", "echo hi", quiet)
                               EXCEPT !.tempFails = tf, !.writeFails = wf, !.startFails = sf]),
           second |-> o] :
            a \in BOOLEAN, tf \in BOOLEAN, wf \in BOOLEAN, sf \in BOOLEAN,
            o \in {none, Call0(other)} }

\* agent.New, and the first call with the configuration it meets
SandboxInit ==
    /\ config = [MaxIterations |-> MaxIterationsCfg, Streaming |-> FALSE]
    /\ ctx = NewContext("/ws")
    /\ pc = "idle"
    /\ mode = "run"
    /\ cancelled = FALSE
    /\ toolCalls = <<>>
    /\ tcIdx = 0
    /\ ret = ""
    /\ err = Nil
    /\ turn = Turn0(ctx)
    /\ added = 0
    /\ handler = NilHandler
    /\ hooks = <<>>
    /\ NoStream
    /\ NoFileTools
    /\ NoDiscovery
    /\ tmpfs = <<>>
    /\ \E s \in Scenarios :
          /\ sb = s.sb
          /\ execs = [id \in CallIds |-> IF id = 1 THEN s.first ELSE s.second]

SandboxNext ==
    \/ SbCheck
    \/ SbTimeout
    \/ SbWrap
    \/ SbCreateTemp
    \/ SbWriteScript
    \/ SbStart
    \/ ChildWrite
    \/ ChildExit
    \/ KillChild
    \/ SbRunReturns
    \/ SbPostRun
    \/ CallerDone
    \/ SandboxDeadline
    \/ BackToLoop

SandboxSpec == SandboxInit /\ [][SandboxNext]_vars

\* the goroutine of os/exec that watches the context, cmd.Run, runCommand
\* and the agent's loop are scheduled: each of their steps is taken once it
\* stays possible
SandboxLiveSpec ==
    /\ SandboxSpec
    /\ WF_vars(KillChild)
    /\ WF_vars(SbRunReturns)
    /\ WF_vars(SbPostRun)
    /\ WF_vars(BackToLoop)

---------------------------------------------------------------------------
(* The file tools on their own: the tools of one agent are called one       *)
(* after the other on a file system that nothing else changes.              *)

\* the tools are made with the workspace root the agent was given: an
\* absolute path, a path relative to the working directory, or the working
\* directory itself
FileInit ==
    /\ config = [MaxIterations |-> MaxIterationsCfg, Streaming |-> FALSE]
    /\ ctx = NewContext("/ws")
    /\ pc = "idle"
    /\ mode = "run"
    /\ cancelled = FALSE
    /\ toolCalls = <<>>
    /\ tcIdx = 0
    /\ ret = ""
    /\ err = Nil
    /\ turn = Turn0(ctx)
    /\ added = 0
    /\ handler = NilHandler
    /\ hooks = <<>>
    /\ NoStream
    /\ NoSandbox
    /\ NoDiscovery
    /\ fileTools \in {FileTools("/ws", "/"), FileTools("ws/", "/"), FileTools(".", "/ws")}
    /\ fs = FileSystem0
    /\ fileCall = FileCall("", "", "", Nil, {})

FileNext ==
    \/ ReadFile
    \/ WriteFile
    \/ ListDir
    \/ Grep

FileSpec == FileInit /\ [][FileNext]_vars


\* the agent is idle; the goroutines call the Discovery of its workspace
DiscoveryInit ==
    /\ config = [MaxIterations |-> MaxIterationsCfg, Streaming |-> FALSE]
    /\ ctx = NewContext("/ws")
    /\ pc = "idle"
    /\ mode = "run"
    /\ cancelled = FALSE
    /\ toolCalls = <<>>
    /\ tcIdx = 0
    /\ ret = ""
    /\ err = Nil
    /\ turn = Turn0(ctx)
    /\ added = 0
    /\ handler = NilHandler
    /\ hooks = <<>>
    /\ NoStream
    /\ NoSandbox
    /\ NoFileTools
    /\ NoDiscovery

DiscoveryNext ==
    \/ DStart
    \/ DRLock
    \/ DRUnlock
    \/ DLock
    \/ DLockAcquire
    \/ DUnlock
    \/ DLocal

DiscoverySpec == DiscoveryInit /\ [][DiscoveryNext]_vars


---------------------------------------------------------------------------
(* Vocabulary of the properties *)

IsPrefix(s, t) == Len(s) <= Len(t) /\ SubSeq(t, 1, Len(s)) = s

Last(s) == s[Len(s)]

\* the turn started on a context just created or just reset
FreshTurn == turn.iterAtStart = 0 /\ turn.msgsAtStart = <<>>

\* the messages the current turn has added, its user message included
TurnMsgs == SubSeq(ctx.Messages, Len(turn.msgsAtStart) + 1, Len(ctx.Messages))

\* the tool-result messages of the current turn
TurnToolMsgs == SelectSeq(TurnMsgs, LAMBDA m : m.Role = "tool")

\* the calls of the last answer whose execution is over
CallsDone == IF pc = "tools" THEN tcIdx - 1 ELSE Len(turn.last.ToolCalls)

LimitError == "max iterations (" \o ToString(config.MaxIterations) \o ") reached"

\* the errors Run / RunStream return for a provider or stream failure
ProviderFailures == {"LLM error: failed to send request", "context canceled", "unexpected EOF"}

\* the payloads that are a JSON object
JSONObjects == {"{}", "{\"path\":\"a.txt\"}"}

\* the payloads json.Unmarshal stores in a map without an error
MapPayloads == JSONObjects \cup {"null"}

\* the error texts of executeTool
ToolFailures ==
    {"unknown tool: nope",
     "invalid arguments: unexpected end of JSON input",
     "path is required",
     "context canceled"}

IsErrorResult(content) == \E e \in ToolFailures : content = "Error: " \o e

---------------------------------------------------------------------------
(* C1 *)

\* C1: a turn that starts on a fresh or just-reset context and ends with the
\* iteration-limit error has issued exactly MaxIterations completion
\* requests, each answered with tool calls; a fresh turn whose every request
\* was answered with tool calls ends (unless it is cancelled) with the limit
\* error after exactly MaxIterations requests; and the limit error is only
\* ever returned from the top of an iteration, never from the tool loop.
C1_IterationLimit ==
    /\ [](pc = "done" /\ FreshTurn /\ err = LimitError
            => /\ config.MaxIterations > 0
               /\ turn.reqs = config.MaxIterations
               /\ turn.withCalls = turn.reqs)
    /\ [](pc = "done" /\ FreshTurn /\ turn.withCalls = turn.reqs /\ err # "context canceled"
            => err = LimitError /\ turn.reqs = config.MaxIterations)
    /\ [][pc # "done" /\ pc' = "done" /\ err' = LimitError
            => pc = "top" /\ turn'.reqs = turn.reqs /\ turn'.execs = turn.execs]_vars

W1_LimitAfterTwoRequests ==
    /\ pc = "done"
    /\ FreshTurn
    /\ config.MaxIterations = 2
    /\ err = LimitError
    /\ turn.reqs = 2
    /\ Len(turn.execs) >= 2

---------------------------------------------------------------------------
(* C2 *)

\* C2: while and after the calls of an answer with k >= 1 tool calls are
\* executed, the history ends with one assistant message holding exactly
\* those k calls followed by one tool-result message per executed call, in
\* call order and with the call's id; the calls executed are exactly the
\* first ones of the answer, in order; and when the next request is issued
\* all k results are in the history.
C2_SequentialToolCalls ==
    (pc \in {"tools", "call", "top"} /\ turn.withCalls > 0) =>
        LET calls == turn.last.ToolCalls
            k == Len(calls)
            n == CallsDone
            h == ctx.Messages
            a == Len(h) - n
        IN  /\ k >= 1
            /\ n \in 0..k
            /\ pc = "tools" => toolCalls = calls /\ n < k
            /\ pc \in {"call", "top"} => n = k
            /\ a >= 1
            /\ h[a].Role = "assistant"
            /\ h[a].ToolCalls = calls
            /\ \A j \in 1..n :
                /\ h[a + j].Role = "tool"
                /\ h[a + j].ToolCallID = calls[j].ID
            /\ Len(turn.execs) = turn.calls - k + n
            /\ SubSeq(turn.execs, Len(turn.execs) - n + 1, Len(turn.execs)) = SubSeq(calls, 1, n)
            /\ Len(TurnMsgs) = 1 + turn.withCalls + Len(turn.execs)

W2_SecondCallAfterFirstResult ==
    /\ pc = "tools"
    /\ tcIdx = 2
    /\ Len(toolCalls) = 2
    /\ toolCalls[1].ID # toolCalls[2].ID
    /\ Last(ctx.Messages).Role = "tool"
    /\ Last(ctx.Messages).ToolCallID = toolCalls[1].ID

---------------------------------------------------------------------------
(* C3 *)

\* the j-th tool call executed in the turn and the j-th tool-result message
\* of the turn
ExecutedPairs == 1..Len(turn.execs)

\* C3 as claimed: every executed call that names an unregistered tool or
\* whose payload is not a JSON object is answered by an 'Error: ...' result.
X3_NonObjectPayloadIsError ==
    \A j \in ExecutedPairs :
        (turn.execs[j].Name \notin RegisteredTools \/ turn.execs[j].Arguments \notin JSONObjects)
            => IsErrorResult(TurnToolMsgs[j].Content)

\* C3 (amended): every executed call is answered by a tool-result message
\* with its id; the content is 'Error: unknown tool: <name>' for an
\* unregistered tool, 'Error: invalid arguments: ...' for a registered tool
\* whose payload json.Unmarshal rejects (the empty payload included; null is
\* accepted and the tool runs); no step of the tool loop returns from Run /
\* RunStream, the loop going on to the next call and after the last one to
\* the top of the next iteration; and Run / RunStream only ever return the
\* limit error, the cancellation error or a provider/stream error.
C3_ToolFailuresAreResults ==
    /\ [](/\ Len(TurnToolMsgs) = Len(turn.execs)
          /\ \A j \in ExecutedPairs :
                LET tc == turn.execs[j]
                    m == TurnToolMsgs[j]
                IN  /\ m.ToolCallID = tc.ID
                    /\ tc.Name \notin RegisteredTools
                        => m.Content = "Error: unknown tool: " \o tc.Name
                    /\ tc.Name \in RegisteredTools /\ tc.Arguments \notin MapPayloads
                        => m.Content = "Error: invalid arguments: unexpected end of JSON input"
                    /\ tc.Name = "list_dir" /\ tc.Arguments = "null"
                        => m.Content \in {"a.txt", "Error: context canceled"})
    /\ [](pc = "done" => err \in {Nil, LimitError} \cup ProviderFailures)
    /\ [][pc = "tools" =>
            /\ err' = Nil
            /\ pc' = (IF tcIdx = Len(toolCalls) /\ turn'.execs # turn.execs THEN "top" ELSE "tools")
            /\ turn'.reqs = turn.reqs]_vars

W3_RequestAfterFailedCalls ==
    /\ pc = "call"
    /\ turn.reqs = 2
    /\ Len(turn.execs) = 2
    /\ turn.execs[1].Name = "nope"
    /\ turn.execs[2].Arguments = ""
    /\ TurnToolMsgs[1].Content = "Error: unknown tool: nope"
    /\ TurnToolMsgs[2].Content = "Error: invalid arguments: unexpected end of JSON input"

---------------------------------------------------------------------------
(* C4 *)

\* C4 as claimed: whatever the iteration counter, a cancelled context at the
\* top of an iteration makes the call return the cancellation error.
X4_CancelledAlwaysCancellationError ==
    [][pc = "top" /\ cancelled => pc' = "done" /\ err' = "context canceled"]_vars

\* C4 (amended): at the top of an iteration with the context cancelled the
\* call returns at once, with no request issued and no tool executed: it
\* returns the cancellation error when the iteration limit is not reached,
\* and the iteration-limit error when it is (the limit is tested first).
C4_CancelledAtTop ==
    [][pc = "top" /\ cancelled =>
            /\ pc' = "done"
            /\ ret' = ""
            /\ turn'.reqs = turn.reqs
            /\ turn'.execs = turn.execs
            /\ ctx'.Messages = ctx.Messages
            /\ err' = (IF config.MaxIterations > 0 /\ ctx.IterationCount >= config.MaxIterations
                       THEN LimitError ELSE "context canceled")]_vars

W4_CancelledAfterFirstIteration ==
    /\ pc = "done"
    /\ mode = "run"
    /\ err = "context canceled"
    /\ turn.reqs = 1
    /\ Len(turn.execs) >= 1
    /\ ctx.IterationCount = turn.iterAtStart + 2

---------------------------------------------------------------------------
(* C5 *)

\* C5: when an answer carries no tool calls, Run / RunStream returns its
\* text with a nil error; the history grows by one assistant message with
\* that text if the text is not empty and by nothing if it is; and the
\* turn has issued no request beyond the answered ones.
C5_FinalAnswer ==
    [][pc = "call" /\ turn'.resps = turn.resps + 1 /\ turn'.last.ToolCalls = <<>> =>
            /\ pc' = "done"
            /\ err' = Nil
            /\ ret' = turn'.last.Content
            /\ turn'.reqs = turn'.resps
            /\ ctx'.Messages =
                 (IF turn'.last.Content = "" THEN ctx.Messages
                  ELSE ctx.Messages \o
                       <<[Role |-> "assistant", Content |-> turn'.last.Content,
                          ToolCalls |-> <<>>, ToolCallID |-> ""]>>)]_vars

W5_StreamedTextReturned ==
    /\ pc = "done"
    /\ mode = "stream"
    /\ err = Nil
    /\ ret = "done"
    /\ turn.resps = 1
    /\ Len(TurnMsgs) = 2
    /\ Last(ctx.Messages).Content = "done"

---------------------------------------------------------------------------
(* C6 *)

\* C6: a call that returns without error after j answers with tool calls
\* and one without has issued exactly j+1 requests, passed exactly the
\* c_1+...+c_j announced calls to executeTool and returns the last answer's
\* text; and the limit error is returned only when the iterations of this
\* and the earlier turns add up to MaxIterations, so never on a fresh
\* context while no more than MaxIterations requests are needed.
C6_ScriptedTurn ==
    /\ pc = "done" /\ err = Nil =>
        /\ turn.reqs = turn.withCalls + 1
        /\ turn.resps = turn.reqs
        /\ Len(turn.execs) = turn.calls
        /\ turn.last.ToolCalls = <<>>
        /\ ret = turn.last.Content
    /\ pc = "done" /\ err = LimitError =>
        turn.iterAtStart + turn.reqs = config.MaxIterations

W6_ReadFileThenDone ==
    /\ pc = "done"
    /\ mode = "run"
    /\ err = Nil
    /\ ret = "done"
    /\ FreshTurn
    /\ turn.reqs = 2
    /\ turn.execs = <<[ID |-> "call_1", Name |-> "read_file", Arguments |-> "{\"path\":\"a.txt\"}"]>>
    /\ TurnToolMsgs[1].Content = "     1|hello"

---------------------------------------------------------------------------
(* C7 *)

\* C7: the token totals are the totals at the start of the turn plus the
\* usage reported by every answer of the turn, those with tool calls as
\* well as the final one; for a stream the usage is that of its Done event.
C7_UsageAccumulates ==
    /\ ctx.TotalInputTokens = turn.inAtStart + turn.usageIn
    /\ ctx.TotalOutputTokens = turn.outAtStart + turn.usageOut

W7_UsageOfTwoAnswers ==
    /\ pc = "done"
    /\ mode = "stream"
    /\ err = Nil
    /\ turn.resps = 2
    /\ turn.inAtStart > 0
    /\ ctx.TotalInputTokens = turn.inAtStart + 7
    /\ ctx.TotalOutputTokens = turn.outAtStart + 9

---------------------------------------------------------------------------
(* C8 *)

\* every tool message answers a call of the nearest assistant message
\* before it, the i-th tool message after it answering its i-th call, and
\* every call of an assistant message is answered before any other message
WellFormed(h) ==
    /\ \A p \in 1..Len(h) :
        h[p].Role = "tool" =>
            \E a \in 1..(p - 1) :
                /\ h[a].Role = "assistant"
                /\ \A q \in (a + 1)..(p - 1) : h[q].Role = "tool"
                /\ p - a <= Len(h[a].ToolCalls)
                /\ h[p].ToolCallID = h[a].ToolCalls[p - a].ID
    /\ \A a \in 1..Len(h) :
        h[a].Role = "assistant" =>
            /\ a + Len(h[a].ToolCalls) <= Len(h)
            /\ \A j \in 1..Len(h[a].ToolCalls) :
                /\ h[a + j].Role = "tool"
                /\ h[a + j].ToolCallID = h[a].ToolCalls[j].ID

\* C8: whenever a completion request is issued and whenever Run / RunStream
\* has returned, the history is well-formed.
C8_HistoryWellFormed == pc \in {"call", "done", "idle"} => WellFormed(ctx.Messages)

W8_TwoCallsAnswered ==
    /\ pc = "call"
    /\ Len(ctx.Messages) = 4
    /\ Len(ctx.Messages[2].ToolCalls) = 2
    /\ ctx.Messages[3].ToolCallID = ctx.Messages[2].ToolCalls[1].ID
    /\ ctx.Messages[4].ToolCallID = ctx.Messages[2].ToolCalls[2].ID
    /\ ctx.Messages[3].ToolCallID # ctx.Messages[4].ToolCallID

---------------------------------------------------------------------------
(* C9 *)

\* C9: every step other than a Reset leaves the earlier history a prefix of
\* the later one, and a step that returns an error leaves the history as
\* it is: nothing the failed turn added is taken back.
C9_AppendOnly ==
    [][/\ Reset \/ IsPrefix(ctx.Messages, ctx'.Messages)
       /\ pc' = "done" /\ err' # Nil => ctx'.Messages = ctx.Messages]_vars

W9_FailedTurnKeepsMessages ==
    /\ pc = "done"
    /\ err = "LLM error: failed to send request"
    /\ turn.reqs = 2
    /\ Len(turn.msgsAtStart) > 0
    /\ Len(ctx.Messages) = Len(turn.msgsAtStart) + 3

---------------------------------------------------------------------------
(* C10 *)

\* C10: a Reset empties the history and zeroes the iteration counter,
\* leaves the loaded skills and the workspace path as they are, and a
\* second Clear changes nothing more.
C10_ResetIdempotent ==
    [][Reset =>
            /\ ctx'.Messages = <<>>
            /\ ctx'.IterationCount = 0
            /\ ctx'.LoadedSkills = ctx.LoadedSkills
            /\ ctx'.WorkspacePath = ctx.WorkspacePath
            /\ Clear(ctx') = ctx'
            /\ Clear(Clear(ctx)) = Clear(ctx)]_vars

W10_ResetAfterTurn ==
    /\ pc = "idle"
    /\ ctx.Messages = <<>>
    /\ ctx.IterationCount = 0
    /\ ctx.TotalInputTokens > 0
    /\ added >= 3
    /\ DOMAIN ctx.LoadedSkills = {"golang", "code-review"}
    /\ ctx.WorkspacePath = "/ws"

---------------------------------------------------------------------------
(* C11 *)

\* C11: a request that fails (Complete or CompleteStream returns an error,
\* or the stream yields an Error event) ends the call at once with that
\* error and an empty result: the context is left as it was (no assistant
\* message, no usage), no tool call is executed or left to execute, the
\* request is not issued again, and a turn that has returned has at most
\* one unanswered request, the failed one.
C11_ProviderErrorEndsTurn ==
    /\ [][pc = "call" /\ pc' # "call" /\ turn'.resps = turn.resps =>
            /\ pc' = "done"
            /\ err' \in ProviderFailures
            /\ ret' = ""
            /\ ctx' = ctx
            /\ toolCalls' = <<>>
            /\ turn'.reqs = turn.reqs
            /\ turn'.execs = turn.execs]_vars
    /\ [](pc = "done" /\ turn.reqs # turn.resps =>
            /\ turn.reqs = turn.resps + 1
            /\ err \in ProviderFailures)

W11_StreamFailsOnSecondRequest ==
    /\ pc = "done"
    /\ mode = "stream"
    /\ err = "unexpected EOF"
    /\ ret = ""
    /\ turn.reqs = 2
    /\ turn.resps = 1
    /\ Len(turn.execs) = 1
    /\ Len(TurnMsgs) = 3
    /\ ctx.TotalInputTokens = turn.inAtStart + turn.usageIn

---------------------------------------------------------------------------
(* C12 *)

\* C12: RunStream refines Run: when a stream made of the Text fragments of
\* a response, a ToolCallStart and a ToolCallEnd per tool call and a Done
\* with its usage has been consumed, RunStream is where Run is after that
\* response: same history, token totals, iteration counter, tool calls to
\* execute and return value. The step that receives an answer is the only
\* one in which the two loops differ.
C12_StreamRefinesRun ==
    [][pc = "call" /\ turn'.resps = turn.resps + 1 =>
            LET r == RunOnResponse(ctx, turn'.last) IN
            /\ ctx' = r.ctx
            /\ pc' = r.pc
            /\ toolCalls' = r.toolCalls
            /\ ret' = r.ret
            /\ err' = Nil]_vars

W12_StreamedTurnWithTwoCalls ==
    /\ pc = "done"
    /\ mode = "stream"
    /\ err = Nil
    /\ ret = "done"
    /\ turn.withCalls = 1
    /\ turn.calls = 2
    /\ Len(turn.execs) = 2
    /\ ctx.IterationCount = turn.iterAtStart + 2
    /\ Last(ctx.Messages) = [Role |-> "assistant", Content |-> "done", ToolCalls |-> <<>>, ToolCallID |-> ""]

---------------------------------------------------------------------------
(* C13 *)

\* a stream without its ToolCallDelta events
NoDeltas(events) == SelectSeq(events, LAMBDA e : e.Type # "ToolCallDelta")

\* the stream of a response sent in one text fragment, wire indices in call order
PlainStream(resp) ==
    StreamOf(resp, IF resp.Content = "" THEN <<>> ELSE <<resp.Content>>,
             [i \in 1..Len(resp.ToolCalls) |-> i])

\* C13: whatever handler RunStream is given (nil, one with no hook, one
\* with every hook), the step that consumes an answer leaves the loop where
\* the handler-free Run would be after that answer, a tool step appends the
\* result of executeTool and nothing else, a handler without hooks sees no
\* call, and consuming the stream with its ToolCallDelta events removed
\* gives the same content, tool calls and usage.
C13_HooksDoNotInterfere ==
    /\ [][mode = "stream" /\ pc = "call" /\ turn'.resps = turn.resps + 1 =>
            LET r == RunOnResponse(ctx, turn'.last)
                events == PlainStream(turn'.last)
            IN  /\ ctx' = r.ctx
                /\ pc' = r.pc
                /\ toolCalls' = r.toolCalls
                /\ ret' = r.ret
                /\ err' = Nil
                /\ ConsumeEvents(NoDeltas(events), StreamState0)
                        = ConsumeEvents(events, StreamState0)]_vars
    /\ [][mode = "stream" /\ pc = "tools" /\ cancelled' = cancelled =>
            LET tc == toolCalls[tcIdx] IN
            /\ ctx' = AddToolResult(ctx, tc.ID, ToolResultText(executeTool(tc, cancelled)))
            /\ turn'.execs = Append(turn.execs, tc)
            /\ pc' = (IF tcIdx = Len(toolCalls) THEN "top" ELSE "tools")
            /\ ret' = ret /\ err' = err]_vars
    /\ [](handler \in {NilHandler, EmptyHandler} => hooks = <<>>)

W13_HooksCalledThroughTurn ==
    /\ pc = "done"
    /\ mode = "stream"
    /\ handler = FullHandler
    /\ err = Nil
    /\ ret = "done"
    /\ turn.execs = <<[ID |-> "call_1", Name |-> "read_file", Arguments |-> "{\"path\":\"a.txt\"}"]>>
    /\ Len(hooks) = 7
    /\ hooks[1].hook = "OnUsage"
    /\ hooks[2].hook = "OnToolStart"
    /\ hooks[3].hook = "OnToolEnd"
    /\ hooks[4] = [hook |-> "OnText", text |-> "do"]
    /\ hooks[5] = [hook |-> "OnText", text |-> "ne"]
    /\ hooks[7].hook = "OnDone"

---------------------------------------------------------------------------
(* C20 *)

\* C20: RunStream with a provider that is no StreamProvider takes the steps
\* of Run (an answer leaves it where Run is after that answer, a failed
\* request returns the wrapped error); no hook is called before it returns;
\* when it returns without error the hook calls are OnText once with the
\* whole result, then OnDone once (each if the handler has it), and when it
\* returns an error there is no hook call; OnToolStart and OnToolEnd are
\* never called.
C20_FallbackIsRun ==
    /\ [](mode = "fallback" /\ pc # "done" => hooks = <<>>)
    /\ [](mode = "fallback" /\ pc = "done" =>
            hooks = (IF err # Nil THEN <<>>
                     ELSE (IF ~handler.nil /\ handler.OnText
                           THEN <<[hook |-> "OnText", text |-> ret]>> ELSE <<>>)
                          \o (IF ~handler.nil /\ handler.OnDone
                              THEN <<[hook |-> "OnDone"]>> ELSE <<>>)))
    /\ [][mode = "fallback" /\ pc = "call" /\ pc' # "call" =>
            IF turn'.resps = turn.resps + 1
            THEN LET r == RunOnResponse(ctx, turn'.last) IN
                 /\ ctx' = r.ctx
                 /\ pc' = r.pc
                 /\ toolCalls' = r.toolCalls
                 /\ ret' = r.ret
                 /\ err' = Nil
            ELSE /\ pc' = "done"
                 /\ ctx' = ctx
                 /\ ret' = ""
                 /\ err' = "LLM error: failed to send request"]_vars

W20_FallbackTurnWithHooks ==
    /\ pc = "done"
    /\ mode = "fallback"
    /\ handler = FullHandler
    /\ err = Nil
    /\ turn.reqs = 2
    /\ Len(turn.execs) = 1
    /\ hooks = <<[hook |-> "OnText", text |-> "done"], [hook |-> "OnDone"]>>

---------------------------------------------------------------------------
(* The stream adapters and the channel *)

\* the positions of the terminal events of a sequence of events
Terminals(events) == { i \in 1..Len(events) : events[i].Type \in {"Done", "Error"} }

\* the positions of the events of one type and index
EventsOf(events, type, index) ==
    { i \in 1..Len(events) : events[i].Type = type /\ events[i].ToolCallIndex = index }

\* C14: a terminal event (Done or Error) the goroutine has sent is the last
\* event it has sent; once one is sent the goroutine only returns, which
\* closes the channel; and when the channel is closed exactly one terminal
\* event was sent, as the last event, and the goroutine has ended with
\* nothing left to send.
C14_OneTerminalEvent ==
    /\ Terminals(sent) \subseteq {Len(sent)}
    /\ Terminals(sent) # {} => prod.pc \in {"return", "exited"} /\ prod.pending = <<>>
    /\ chan.closed =>
            /\ Terminals(sent) = {Len(sent)}
            /\ prod.pc = "exited"
            /\ prod.pending = <<>>

W14_DoneAtMessageStop ==
    /\ net.adapter = "anthropic"
    /\ chan.closed
    /\ net.lines # <<>>
    /\ Len(sent) = 2
    /\ Last(sent).Type = "Done"

\* C15: in a stream that has ended with Done, every index for which a
\* ToolCallStart was sent has exactly one ToolCallEnd, and that ToolCallEnd
\* comes after every ToolCallDelta of the index (and, Done being last,
\* before Done).
X15_EveryStartedCallEnds ==
    chan.closed /\ sent # <<>> /\ Last(sent).Type = "Done" =>
        \A i \in 1..Len(sent) :
            sent[i].Type = "ToolCallStart" =>
                LET k == sent[i].ToolCallIndex IN
                /\ Cardinality(EventsOf(sent, "ToolCallEnd", k)) = 1
                /\ \A e \in EventsOf(sent, "ToolCallEnd", k) :
                      \A d \in EventsOf(sent, "ToolCallDelta", k) : d < e

RECURSIVE Fragments(_, _)
\* the ArgumentDelta fragments of the ToolCallDelta events of an index,
\* concatenated in the order of the events
Fragments(events, index) ==
    IF events = <<>> THEN ""
    ELSE (IF Head(events).Type = "ToolCallDelta" /\ Head(events).ToolCallIndex = index
          THEN Head(events).ArgumentDelta ELSE "")
         \o Fragments(Tail(events), index)

\* C16: in a stream that has ended, the Arguments of every ToolCallEnd are
\* the concatenation, in the order sent, of the fragments of the
\* ToolCallDelta events of the same index.
X16_FragmentsGiveArguments ==
    chan.closed =>
        \A e \in 1..Len(sent) :
            sent[e].Type = "ToolCallEnd" =>
                sent[e].ToolCall.Arguments = Fragments(sent, sent[e].ToolCallIndex)

X18_FinalIDEchoed ==
    net.adapter = "openai" /\ cons.pc = "finished" /\ cons.st.toolCalls # <<>> =>
        LET calls == cons.msgs[1].ToolCalls IN
        \A i \in 1..Len(calls) :
            \E a \in 1..Len(prod.heap) :
                /\ calls[i].ID = prod.heap[a].ID
                /\ calls[i].Name = prod.heap[a].Name
                /\ cons.msgs[1 + i].ToolCallID = prod.heap[a].ID

\* the events in the channel's buffer, oldest first
Buffered == [i \in 1..Len(chan.buf) |-> chan.buf[i].ev]

\* C19: the events RunStream has received, followed by the events in the
\* buffer, are the events the goroutine has sent, in the order sent; the
\* buffer never holds more than ChanCap events; a goroutine that is
\* sending while the buffer is full does not move and nothing is sent
\* until RunStream has received an event; and when RunStream has left its
\* loop at the closed channel it has received every event sent, once.
C19_BoundedOrderedChannel ==
    /\ [](got \o Buffered = sent)
    /\ [](Len(chan.buf) <= ChanCap)
    /\ [](cons.pc = "finished" => got = sent)
    /\ [][Len(chan.buf) = ChanCap /\ prod.pc = "send" => prod' = prod /\ sent' = sent]_vars

W19_ProducerBlocked ==
    /\ Len(chan.buf) = ChanCap
    /\ prod.pc = "send"
    /\ prod.pending # <<>>
    /\ Len(got) = 1

---------------------------------------------------------------------------
(* The sandboxed executor *)

\* a call that checkBlacklist has let through or has refused
Checked(c) == c.pc \notin {"none", "idle"}

\* a call that has returned to its caller
HasReturned(c) == c.pc \in {"returned", "loop"}

\* what checkBlacklist is given: the command line or the script
CheckedInput(in) ==
    IF in.kind = "Execute" THEN in.command \o " " \o Join(in.args, " ") ELSE in.script

\* an error that wraps ErrBlacklistedCommand
IsBlacklistError(e) == e # Nil /\ HasPrefix(e, ErrBlacklistedCommand)

\* lower case, runs of whitespace collapsed
Normalized(s) == CollapseSpace(ToLower(s))

\* the call was refused: a blacklist error, no script file, no process
Refused(c) ==
    /\ HasReturned(c)
    /\ c.result = NoResult
    /\ IsBlacklistError(c.err)
    /\ ~c.created
    /\ ~c.started

\* C21: a command line or script that contains a deny-list pattern, both
\* taken in lower case with runs of whitespace collapsed, is refused with an
\* error wrapping ErrBlacklistedCommand, without a script file or a process
X21_NormalizedPatternRefused ==
    \A id \in CallIds :
        (/\ Checked(execs[id])
         /\ \E i \in 1..Len(sb.CommandBlacklist) :
                Contains(Normalized(CheckedInput(execs[id].in)),
                         Normalized(sb.CommandBlacklist[i])))
        => Refused(execs[id])

\* C22: an empty or nil deny-list refuses nothing; agent.New gives the
\* sandbox an empty list when DisableBlacklist is set, the default list when
\* CommandBlacklist is nil, and the configured list otherwise
C22_BlacklistResolution ==
    /\ sb.CommandBlacklist =
          (IF sb.agent.DisableBlacklist THEN <<>>
           ELSE IF sb.agent.CommandBlacklist.nil THEN DefaultBlacklist
           ELSE sb.agent.CommandBlacklist.items)
    /\ Len(sb.CommandBlacklist) = 0 =>
          \A id \in CallIds : ~IsBlacklistError(execs[id].err)

\* the deny-list is disabled, the configured list would have refused the
\* command, and the process has been started
W22_DisabledListLetsCommandRun ==
    /\ sb.agent = [DisableBlacklist |-> TRUE,
                   CommandBlacklist |-> [nil |-> FALSE, items |-> <<"RM -RF /">>]]
    /\ execs[1].in.command = "rm"
    /\ execs[1].started

\* the name and the value of an environment entry NAME=value
EnvName(e) ==
    SubSeq(e, 1, (CHOOSE k \in 1..Len(e) :
                      Char(e, k) = "=" /\ \A j \in 1..(k - 1) : Char(e, j) # "=") - 1)

EnvValue(e) == From(e, Len(EnvName(e)) + 1)

\* the names of AllowedEnv that the parent's environment has
AllowedInParent == { sb.AllowedEnv[i] : i \in 1..Len(sb.AllowedEnv) } \cap DOMAIN sb.parent

\* C23: the child's environment is the allow-listed variables that the
\* parent has, with the parent's values, then the custom entries with their
\* configured values, then the default PATH if and only if no entry before it
\* is named PATH; no other variable of the parent is in it
C23_ChildEnvironment ==
    \A id \in CallIds :
        execs[id].env # <<>> =>
            LET env == execs[id].env
                na == Cardinality(AllowedInParent)
                nc == Cardinality(DOMAIN sb.CustomEnv)
            IN  /\ Len(env) \in {na + nc, na + nc + 1}
                /\ { EnvName(env[i]) : i \in 1..na } = AllowedInParent
                /\ \A i \in 1..na : EnvValue(env[i]) = sb.parent[EnvName(env[i])]
                /\ \A i, j \in 1..na :
                      i < j => \E k, l \in 1..Len(sb.AllowedEnv) :
                                  /\ k < l
                                  /\ sb.AllowedEnv[k] = EnvName(env[i])
                                  /\ sb.AllowedEnv[l] = EnvName(env[j])
                /\ { EnvName(env[i]) : i \in (na + 1)..(na + nc) } = DOMAIN sb.CustomEnv
                /\ \A i \in (na + 1)..(na + nc) : EnvValue(env[i]) = sb.CustomEnv[EnvName(env[i])]
                /\ Len(env) = na + nc + 1 <=> ~\E i \in 1..(na + nc) : EnvName(env[i]) = "PATH"
                /\ Len(env) = na + nc + 1 => env[Len(env)] = DefaultPath
                /\ \A i \in 1..Len(env) :
                      EnvName(env[i]) \in AllowedInParent \cup DOMAIN sb.CustomEnv \cup {"PATH"}
                /\ \A k \in DOMAIN sb.parent \ AllowedInParent :
                      \A i \in 1..Len(env) :
                          env[i] = k \o "=" \o sb.parent[k] =>
                              k \in DOMAIN sb.CustomEnv /\ sb.CustomEnv[k] = sb.parent[k]

\* the parent has a SECRET and no PATH: the started child has HOME, the two
\* custom entries and the default PATH
W23_DefaultPathAfterCustom ==
    /\ execs[1].started
    /\ execs[1].env = <<"HOME=/root", "B=2", "A=1", DefaultPath>>
    /\ "SECRET" \in DOMAIN sb.parent

\* the result of a timed-out call
TimedOutResult(c) ==
    /\ ~c.result.nil
    /\ c.result.TimedOut
    /\ c.result.ExitCode = -1
    /\ c.err = Nil

\* C24: when the deadline of the sandbox's Timeout passes while the child
\* is running, the call returns a result with TimedOut set and exit code -1
\* and a nil error; a call whose deadline has passed never returns the
\* deadline as an error
C24_TimeoutIsAResult ==
    \A id \in CallIds :
        LET c == execs[id] IN
        c.ctxBy = "sandbox" =>
            /\ sb.Timeout > 0
            /\ HasReturned(c) /\ c.ctxAt = "running" => TimedOutResult(c)
            /\ HasReturned(c) => c.err # "execution failed: context deadline exceeded"

\* a child that never exits by itself was killed at the deadline and the
\* call has returned
W24_HungChildTimedOut ==
    /\ execs[1].ctxBy = "sandbox"
    /\ execs[1].ctxAt = "running"
    /\ execs[1].in.child.exit = -2
    /\ execs[1].proc = "killed"
    /\ HasReturned(execs[1])
    /\ execs[1].result.TimedOut

\* C25: a result has TimedOut set only when the deadline of the sandbox's own
\* Timeout passed before the child had exited by itself; a child that exited
\* first, or a call ended by the caller's cancellation or the caller's own
\* deadline, is never returned with TimedOut set
X25_TimedOutOnlyBySandboxDeadline ==
    \A id \in CallIds :
        LET c == execs[id] IN
        HasReturned(c) /\ ~c.result.nil /\ c.result.TimedOut =>
            c.ctxBy = "sandbox" /\ c.ctxAt # "exited"

RECURSIVE Concat(_, _)
\* the bytes of the writes made on a stream, in order
Concat(writes, stream) ==
    IF writes = <<>> THEN ""
    ELSE (IF Head(writes).stream = stream THEN Head(writes).data ELSE "")
         \o Concat(Tail(writes), stream)

\* what the child has written on a stream so far
Produced(c, stream) == Concat(SubSeq(c.in.child.writes, 1, c.next - 1), stream)

\* the first n bytes of s, or s when it is shorter
FirstBytes(s, n) == SubSeq(s, 1, IF Len(s) < n THEN Len(s) ELSE n)

\* C26: the captured buffer of each stream is the first min(N, total) bytes
\* of what the child wrote on that stream, whatever it wrote on the other,
\* and every Write reports len(p) bytes with a nil error
X26_CapDiscardsSilently ==
    \A id \in CallIds :
        LET c == execs[id] IN
        c.started =>
            /\ c.stdout.buf = FirstBytes(Produced(c, "stdout"), sb.MaxOutputBytes)
            /\ c.stderr.buf = FirstBytes(Produced(c, "stderr"), sb.MaxOutputBytes)
            /\ \A i \in 1..Len(c.returns) :
                  c.returns[i].n = c.returns[i].len /\ c.returns[i].err = Nil

\* C27: a child that has exited with a status other than 0, without a
\* timeout, gives that status as ExitCode and a nil error; an error is
\* returned only for a deny-list match, a working directory that cannot be
\* resolved, a script file that cannot be created or written, or a process
\* that cannot be started
X27_ErrorsAreInfrastructure ==
    \A id \in CallIds :
        LET c == execs[id] IN
        HasReturned(c) =>
            /\ (/\ c.proc = "exited"
                /\ c.in.child.exit # 0
                /\ c.ctxErr # "context deadline exceeded")
               => ~c.result.nil /\ c.result.ExitCode = c.in.child.exit /\ c.err = Nil
            /\ c.err # Nil =>
                  \/ IsBlacklistError(c.err)
                  \/ sb.absFails
                  \/ c.in.tempFails
                  \/ c.in.writeFails
                  \/ ~c.started

\* the script files that call id made and that still exist
FilesOf(id) == { f \in DOMAIN tmpfs : tmpfs[f] = id }

\* C28: once a call has returned, the script file it made is gone, whatever
\* the outcome; while a call is under way its file exists and is its own,
\* so that two calls never use the same file
C28_ScriptFileRemoved ==
    /\ \A id \in CallIds :
          LET c == execs[id] IN
          /\ HasReturned(c) => FilesOf(id) = {}
          /\ c.created /\ ~HasReturned(c) => FilesOf(id) = {c.tmpPath}
    /\ \A id1, id2 \in CallIds :
          (/\ id1 # id2
           /\ execs[id1].created /\ ~HasReturned(execs[id1])
           /\ execs[id2].created /\ ~HasReturned(execs[id2]))
          => execs[id1].tmpPath # execs[id2].tmpPath

\* the first call has returned after its script could not be written, the
\* second is running its own script
W28_FailedWriteLeavesNoFile ==
    /\ HasReturned(execs[1])
    /\ execs[1].created
    /\ execs[1].in.writeFails
    /\ execs[2].pc = "wait"
    /\ DOMAIN tmpfs = {execs[2].tmpPath}

NameChars == "ABCDEFGHIJKLMNOPQRSTUVWXYZabcdefghijklmnopqrstuvwxyz0123456789_"

IsNameChar(c) == \E i \in 1..Len(NameChars) : Char(NameChars, i) = c

\* the word occurs in the text, not as a part of a longer name
HasWord(s, word) ==
    \E i \in 0..(Len(s) - Len(word)) :
        /\ SubSeq(s, i + 1, i + Len(word)) = word
        /\ i = 0 \/ ~IsNameChar(Char(s, i))
        /\ i + Len(word) = Len(s) \/ ~IsNameChar(Char(s, i + Len(word) + 1))

\* print, import, the definitions and the control-flow keywords
PythonKeywords == {"print", "import", "def", "class", "if", "for", "while", "with", "try"}

\* the script has several statements: more than one line, or a semicolon
SeveralStatements(s) == Contains(TrimSpace(s), "\n") \/ Contains(s, ";")

\* C30: for python and python3 a script with several statements, or with one
\* of the keywords, is written to the script file unchanged, so that only a
\* single bare expression is wrapped; for another interpreter the script is
\* always written unchanged
X30_OnlyBareExpressionWrapped ==
    \A id \in CallIds :
        LET c == execs[id] IN
        c.in.kind = "ExecuteScript" /\ c.pc \notin {"none", "idle", "timeout", "wrap"} =>
            IF c.in.interpreter \in {"python", "python3"}
            THEN (\/ SeveralStatements(c.in.script)
                  \/ \E w \in PythonKeywords : HasWord(c.in.script, w))
                 => c.script = c.in.script
            ELSE c.script = c.in.script

---------------------------------------------------------------------------
(* The file tools *)

\* the location is the directory or one of its descendants
Within(dir, loc) == loc = dir \/ HasPrefix(loc, IF dir = "/" THEN "/" ELSE dir \o "/")

\* the workspace root as an absolute path
AbsWorkspace == Abs(fileTools.workspaceRoot, fileTools.cwd)

\* the location the path argument of the last call designates
Designated == Abs(FilepathJoin(fileTools.workspaceRoot, fileCall.path), fileTools.cwd)

\* C31: a call of read_file, write_file, list_dir or grep whose path
\* argument, joined to the root and cleaned, designates a location that is
\* neither the root nor a descendant of it returns "path must be within
\* workspace" (or fails before that for a missing required argument) and
\* hands no location to the operating system; no call hands over a
\* location outside the root, and nothing outside the root is created or
\* changed
X31_PathsStayInWorkspace ==
    fileCall.tool # "" =>
        /\ ~Within(AbsWorkspace, Designated) =>
              /\ fileCall.err \in {"path must be within workspace", "path is required",
                                   "pattern is required"}
              /\ fileCall.touched = {}
        /\ \A loc \in fileCall.touched : Within(AbsWorkspace, loc)
        /\ \A p \in (DOMAIN fs.files \cup DOMAIN FileSystem0.files) :
              ~Within(AbsWorkspace, p) =>
                  /\ p \in DOMAIN fs.files
                  /\ p \in DOMAIN FileSystem0.files
                  /\ fs.files[p] = FileSystem0.files[p]

---------------------------------------------------------------------------
(* The iteration counter over a session *)

\* the error is the iteration-limit error, whatever its number
IsLimitError(e) == HasPrefix(e, "max iterations (")

\* C32: with MaxIterations = 0 neither Run nor RunStream ever returns the
\* max-iterations error, however many iterations the turn and the session
\* have taken
C32_ZeroDisablesLimit == config.MaxIterations = 0 => ~IsLimitError(err)

\* MaxIterations is 0, the session has taken more iterations than any limit
\* of the model, the last turn took two of them and returned its answer
W32_ManyIterationsNoLimit ==
    /\ config.MaxIterations = 0
    /\ ctx.IterationCount > MaxIterationsCfg
    /\ pc = "done"
    /\ turn.reqs = 2
    /\ err = Nil
    /\ ret = "done"


\* the turn in progress started with the limit already reached
StartedAtLimit ==
    pc # "idle" /\ config.MaxIterations > 0 /\ turn.iterAtStart >= config.MaxIterations

\* C33: the iteration counter is cumulative over the session.  Every request
\* of a turn is preceded by one increment of the counter, only Reset lowers
\* the counter, and with MaxIterations = N > 0 the counter never passes N, so
\* no more than N requests are issued between two Resets; a Run or RunStream
\* started with the counter at N adds its user message, issues no request and
\* returns the limit error.
C33_CounterIsPerSession ==
    /\ [](/\ turn.iterAtStart + turn.reqs <= ctx.IterationCount
          /\ config.MaxIterations > 0 => ctx.IterationCount <= config.MaxIterations
          /\ StartedAtLimit =>
                /\ turn.reqs = 0
                /\ ctx.IterationCount = config.MaxIterations
                /\ Len(TurnMsgs) = 1 /\ TurnMsgs[1].Role = "user"
                /\ pc \in {"top", "done"}
                /\ pc = "done" => ret = "" /\ err = LimitError)
    /\ [][/\ ctx'.IterationCount < ctx.IterationCount => Reset
          /\ Reset => ctx'.IterationCount = 0
          /\ (StartRun \/ StartRunStream) =>
                /\ ctx'.IterationCount = ctx.IterationCount
                /\ turn'.iterAtStart = ctx.IterationCount
                /\ Len(ctx'.Messages) = Len(ctx.Messages) + 1
          /\ turn'.reqs > turn.reqs =>
                /\ turn'.reqs = turn.reqs + 1
                /\ ctx'.IterationCount = ctx.IterationCount + 1]_vars

\* a second turn, in RunStream, started with the counter at the limit
W33_TurnRefusedAtLimit ==
    /\ StartedAtLimit /\ pc = "done" /\ mode = "stream"
    /\ err = LimitError /\ turn.reqs = 0
    /\ Len(turn.msgsAtStart) >= 2

\* ------------------------------------------------------------------------
\* The end of a stream
\* ------------------------------------------------------------------------

\* the goroutine and RunStream are scheduled and the transport answers
\* every read: a step of either that stays possible is taken
StreamLiveSpec ==
    /\ StreamSpec
    /\ WF_vars(ProducerTop \/ ProducerRead \/ ProducerSend \/ ProducerFinalize
                    \/ ProducerReturn)
    /\ WF_vars(ConsumerRecv \/ ConsumerFinish)

\* C34: RunStream leaves its range loop only at the closed and drained
\* channel or with an Error event as the last event it received; an Error
\* event is the last event the goroutine sends, so once RunStream has left
\* the loop the goroutine has no send ahead of it; and the goroutine
\* eventually closes the response body and the channel and exits.
C34_ProducerAlwaysExits ==
    /\ [](cons.pc = "finished" => chan.closed /\ chan.buf = <<>>)
    /\ [](cons.pc = "returned" => got # <<>> /\ got[Len(got)].Type = "Error")
    /\ [](\A i \in 1..Len(sent) :
            sent[i].Type = "Error" =>
                i = Len(sent) /\ prod.pending = <<>> /\ prod.pc \in {"return", "exited"})
    /\ [](cons.pc \in {"returned", "finished"} => prod.pc \in {"return", "exited"})
    /\ <>[](prod.pc = "exited" /\ chan.closed /\ net.bodyClosed)

\* the goroutine was blocked at a full buffer and has still left, after a
\* cancellation that made RunStream return
W34_BlockedProducerLeft ==
    /\ prod.pc = "exited" /\ chan.closed /\ net.bodyClosed
    /\ cons.pc = "returned" /\ cons.err = ErrCanceled
    /\ Len(sent) > ChanCap

---------------------------------------------------------------------------
(* C35 *)

\* an arguments fragment of index k is among the first n events sent
FragmentSent(k, n) ==
    \E i \in 1..n : sent[i].Type = "ToolCallDelta" /\ sent[i].ToolCallIndex = k

\* the tool calls RunStream has collected with an empty payload
EmptyCalls == { j \in 1..Len(cons.st.toolCalls) : cons.st.toolCalls[j].Arguments = "" }

\* RunStream has handled a closed stream that gave it tool calls
HandledCalls == cons.pc = "finished" /\ Len(cons.st.toolCalls) > 0

InvalidEmpty == "Error: invalid arguments: unexpected end of JSON input"

\* C35 as claimed: every call collected with an empty payload has the tool
\* result 'Error: invalid arguments: ...'
X35_EmptyPayloadIsInvalidArguments ==
    HandledCalls => \A j \in EmptyCalls : cons.msgs[1 + j].Content = InvalidEmpty

\* C35 (amended): a ToolCallEnd sent for an index of which no fragment was
\* sent carries the empty payload, and RunStream collects the call with
\* that payload; the assistant message stored holds the calls as collected,
\* the empty payloads included; the result recorded for such a call is
\* 'Error: invalid arguments: unexpected end of JSON input' when its name is
\* a registered tool and 'Error: unknown tool: <name>' otherwise, and in
\* both cases no tool is executed.
C35_NoFragmentGivesEmptyPayload ==
    /\ [](\A i \in 1..Len(sent) :
            sent[i].Type = "ToolCallEnd" /\ ~FragmentSent(sent[i].ToolCallIndex, i)
                => sent[i].ToolCall.Arguments = "")
    /\ [][/\ ConsumerRecv
          /\ Head(chan.buf).ev.Type = "ToolCallEnd"
          /\ Head(chan.buf).ev.ToolCallIndex \in DOMAIN cons.st.currentToolCalls
          /\ ~FragmentSent(Head(chan.buf).ev.ToolCallIndex, Len(sent))
          => /\ Len(cons'.st.toolCalls) = Len(cons.st.toolCalls) + 1
             /\ cons'.st.toolCalls[Len(cons'.st.toolCalls)].Arguments = ""]_vars
    /\ [](HandledCalls =>
            /\ cons.msgs[1] = NewAssistantToolCallMessage(cons.st.toolCalls)
            /\ \A j \in EmptyCalls :
                LET tc == cons.st.toolCalls[j] IN
                /\ cons.msgs[1].ToolCalls[j].Arguments = ""
                /\ cons.msgs[1 + j].Role = "tool"
                /\ cons.msgs[1 + j].ToolCallID = tc.ID
                /\ cons.msgs[1 + j].Content =
                        (IF tc.Name \in RegisteredTools THEN InvalidEmpty
                         ELSE "Error: unknown tool: " \o tc.Name))

\* a read_file call started and ended without a fragment: the message and
\* the result RunStream stored
W35_EmptyPayloadRecorded ==
    /\ HandledCalls
    /\ ~FragmentSent(0, Len(sent))
    /\ cons.st.toolCalls[1] = ToolCall("call_1", "read_file", "")
    /\ cons.msgs[2].Content = InvalidEmpty

---------------------------------------------------------------------------
(* C36 *)

\* C36: an assistant message of the history has a text and no tool call, or
\* tool calls and no text; an answer with tool calls adds one assistant
\* message with as many calls and the empty content, whatever text came with
\* it, and does not return; and what Run / RunStream return without error is
\* the text of the last answer, which had no tool call.
C36_TextOrCalls ==
    /\ [](\A i \in 1..Len(ctx.Messages) :
            LET m == ctx.Messages[i] IN
            m.Role = "assistant" =>
                \/ m.Content # "" /\ m.ToolCalls = <<>>
                \/ m.Content = "" /\ Len(m.ToolCalls) >= 1)
    /\ [][pc = "call" /\ turn'.resps = turn.resps + 1 /\ turn'.last.ToolCalls # <<>> =>
            /\ Len(ctx'.Messages) = Len(ctx.Messages) + 1
            /\ Last(ctx'.Messages).Role = "assistant"
            /\ Last(ctx'.Messages).Content = ""
            /\ Len(Last(ctx'.Messages).ToolCalls) = Len(turn'.last.ToolCalls)
            /\ pc' = "tools"
            /\ ret' = ""]_vars
    /\ [](pc = "done" /\ err = Nil => turn.last.ToolCalls = <<>> /\ ret = turn.last.Content)

\* a streamed answer with a text and a tool call has been stored
W36_MixedAnswerStored ==
    /\ mode = "stream" /\ pc = "tools" /\ tcIdx = 1
    /\ turn.last.Content = "done" /\ Len(turn.last.ToolCalls) = 1
    /\ Last(ctx.Messages).Role = "assistant"
    /\ Last(ctx.Messages).Content = ""

---------------------------------------------------------------------------
(* C37 *)

\* the deny-list applied to the script as the caller passed it
ScriptDenied(id) == checkBlacklist(sb.CommandBlacklist, execs[id].in.script)

ScriptCalls == { id \in CallIds : execs[id].in.kind = "ExecuteScript" }

\* C37: the first step of ExecuteScript applies the deny-list to the script
\* as passed and does nothing else: a denied script returns the error with
\* no result, and at no time has a timer, a rewritten script or a temporary
\* file; a script that passes goes on to the timeout with the script as
\* passed, and the rewriting and the file come after that.
C37_DenyListBeforeAll ==
    /\ [][\A id \in ScriptCalls :
            execs[id].pc = "idle" /\ execs'[id].pc # "idle" =>
                /\ execs'[id].pc = (IF ScriptDenied(id) # Nil THEN "returned" ELSE "timeout")
                /\ execs'[id].err = ScriptDenied(id)
                /\ execs'[id].result = NoResult
                /\ execs'[id].script = execs[id].in.script
                /\ ~execs'[id].timer /\ ~execs'[id].created
                /\ tmpfs' = tmpfs]_vars
    /\ [](\A id \in ScriptCalls :
            /\ ScriptDenied(id) # Nil =>
                /\ execs[id].pc \in {"idle", "returned", "loop"}
                /\ ~execs[id].timer /\ ~execs[id].created /\ execs[id].tmpPath = ""
                /\ execs[id].script = execs[id].in.script
                /\ execs[id].proc = "none"
            /\ execs[id].script # execs[id].in.script \/ execs[id].created
                => execs[id].pc \notin {"idle", "timeout"})

\* a Python script with a denied text was refused, and the wrapper's form
\* of it would have passed the deny-list
W37_DeniedThoughEncoded ==
    \E id \in ScriptCalls :
        /\ execs[id].pc = "returned"
        /\ IsBlacklistError(execs[id].err)
        /\ execs[id].in.interpreter = "python3"
        /\ wrapPythonScript(execs[id].in.script) # execs[id].in.script
        /\ ~Contains(wrapPythonScript(execs[id].in.script), "rm -rf /")

---------------------------------------------------------------------------
(* C38 *)

\* RunStream in its streaming loop with a handler that has every hook
Hooked == mode = "stream" /\ handler = FullHandler

\* the hook calls a step adds
StepHooks == SubSeq(hooks', Len(hooks) + 1, Len(hooks'))

\* the calls of one hook so far
CallsOf(name) == { i \in 1..Len(hooks) : hooks[i].hook = name }

\* the first k calls of hs are OnText calls whose fragments make up text
TextCalls(hs, k, text) ==
    LET RECURSIVE Joined(_)
        Joined(n) == IF n = 0 THEN "" ELSE Joined(n - 1) \o hs[n].text
    IN  /\ \A i \in 1..k : hs[i].hook = "OnText" /\ hs[i].text # ""
        /\ Joined(k) = text

\* C38: with every hook set, the step that consumes a stream to its close
\* calls OnText once per fragment, in order, then OnUsage once with the usage
\* of the answer, then OnDone when it returns; a stream that ends with an
\* Error gives OnText calls only; a tool step calls OnToolStart with the
\* call, then OnToolEnd with the call and the text that the step appends to
\* the history, so before the next call's OnToolStart; no other step calls a
\* hook; OnUsage has been called once per answer consumed; and OnDone is
\* called once, last, exactly when RunStream has returned without error.
C38_HookOrder ==
    /\ [][Hooked /\ pc = "call" =>
            IF turn'.resps = turn.resps + 1
            THEN LET k == Len(StepHooks) - (IF pc' = "done" THEN 2 ELSE 1) IN
                 /\ k >= 0
                 /\ TextCalls(StepHooks, k, turn'.last.Content)
                 /\ StepHooks[k + 1] = [hook |-> "OnUsage",
                                        in |-> turn'.last.Usage.InputTokens,
                                        out |-> turn'.last.Usage.OutputTokens]
                 /\ pc' = "done" => StepHooks[k + 2] = [hook |-> "OnDone"] /\ err' = Nil
            ELSE \A i \in 1..Len(StepHooks) : StepHooks[i].hook = "OnText"]_vars
    /\ [][Hooked /\ pc = "tools" /\ turn'.execs # turn.execs =>
            LET tc == toolCalls[tcIdx] IN
            /\ Last(ctx'.Messages).Role = "tool"
            /\ Last(ctx'.Messages).ToolCallID = tc.ID
            /\ Len(StepHooks) = 2
            /\ StepHooks[1] = [hook |-> "OnToolStart", call |-> tc]
            /\ StepHooks[2].hook = "OnToolEnd"
            /\ StepHooks[2].call = tc
            /\ StepHooks[2].result = Last(ctx'.Messages).Content]_vars
    /\ [][Hooked /\ Len(hooks') > Len(hooks) =>
            \/ pc = "call"
            \/ pc = "tools" /\ turn'.execs # turn.execs]_vars
    /\ [](Hooked /\ pc # "idle" =>
            /\ Cardinality(CallsOf("OnUsage")) = turn.resps
            /\ Cardinality(CallsOf("OnToolStart")) = Len(turn.execs)
            /\ Cardinality(CallsOf("OnToolEnd")) = Len(turn.execs)
            /\ CallsOf("OnDone") = (IF pc = "done" /\ err = Nil THEN {Len(hooks)} ELSE {}))

\* a turn of two answers: a text with two calls, the first of which fails,
\* then an empty final text
W38_FullTurn ==
    /\ Hooked /\ pc = "done" /\ err = Nil
    /\ Len(hooks) = 8
    /\ hooks[1] = [hook |-> "OnText", text |-> "done"]
    /\ hooks[2].hook = "OnUsage"
    /\ hooks[3].hook = "OnToolStart"
    /\ hooks[4].hook = "OnToolEnd" /\ hooks[4].err # Nil
    /\ hooks[5].hook = "OnToolStart" /\ hooks[5].call # hooks[3].call
    /\ hooks[6].hook = "OnToolEnd" /\ hooks[6].result = ctx.Messages[Len(ctx.Messages)].Content
    /\ hooks[7].hook = "OnUsage"
    /\ hooks[8] = [hook |-> "OnDone"]

---------------------------------------------------------------------------
(* C39 *)

InCall(t) == dcalls[t].stack # <<>>

\* goroutine t cannot take its next step: it sleeps in RLock behind an
\* announced writer, it has announced itself and read locks are held, or it
\* is at Lock and another writer has the writers' mutex
Blocked(t) ==
    \/ dcalls[t].wait = "r"
    \/ dcalls[t].wait = "w" /\ \E u \in DCallers : disc.readers[u] > 0
    \/ Instr(t).op = "Lock" /\ dcalls[t].wait = "" /\ disc.writer # 0

\* C39: whatever methods the goroutines call and however their steps
\* interleave, no unlock meets a lock that is not held; while a call is in
\* progress some call in progress can take a step; a goroutine that is in
\* no call holds no read lock and no write lock and waits for none; a call
\* that asks for the read or the write lock holds neither; and no call
\* holds more than one read lock.
C39_LocksBalanced ==
    /\ ~disc.fault
    /\ (\E t \in DCallers : InCall(t)) => \E t \in DCallers : InCall(t) /\ ~Blocked(t)
    /\ \A t \in DCallers :
        /\ ~InCall(t) => disc.readers[t] = 0 /\ disc.writer # t /\ dcalls[t].wait = ""
        /\ Instr(t).op \in {"Lock", "RLock"} =>
                disc.readers[t] = 0 /\ (disc.writer = t => dcalls[t].wait = "w" /\ ~disc.held)
        /\ disc.readers[t] <= 1
        /\ disc.held => disc.writer # 0 /\ \A u \in DCallers : disc.readers[u] = 0

\* ListWithDescriptions, in Get for a skill not cached, in Discover after a
\* Refresh by the other goroutine, has announced its write lock and waits
\* for the read lock that the other goroutine holds in a List
W39_WriterWaitsForReader ==
    /\ Len(dcalls[1].stack) = 3
    /\ dcalls[1].stack[1].fn = "Discover"
    /\ dcalls[1].stack[3].fn = "ListWithDescriptions"
    /\ dcalls[1].wait = "w"
    /\ disc.writer = 1 /\ ~disc.held
    /\ dcalls[2].stack # <<>> /\ dcalls[2].stack[1].fn = "List"
    /\ disc.readers[2] = 1
    /\ disc.skills # {}
====
